---- MODULE Spec2Model ----
(***************************************************************************)
(* Fair allocation of indivisible goods among families                     *)
(* (erelsgl/fair-family-allocation).                                       *)
(*                                                                         *)
(* A good is a one-character string throughout the repository (goods are   *)
(* given as "wxyz", desired sets as "wx"), so set(g) of a single good g is *)
(* {g}.  Goods are modelled as the integers 1..NumGoods; their natural     *)
(* order is the order of the characters.                                   *)
(***************************************************************************)
EXTENDS Integers, Sequences, FiniteSets, TLC

\* ------------------------------------------------------------------ bounds
NumGoods == 3
MaxFamilySize == 3
MaxTotalMembers == 4
MaxValue == 1

Goods == 1..NumGoods

\* ----------------------------------------------------------- small helpers
RECURSIVE Pow2(_)
Pow2(n) == IF n <= 0 THEN 1 ELSE 2 * Pow2(n - 1)

Max2(a, b) == IF a >= b THEN a ELSE b
Min2(a, b) == IF a <= b THEN a ELSE b

MinOfSet(S) == CHOOSE x \in S : \A y \in S : x <= y
MaxOfSet(S) == CHOOSE x \in S : \A y \in S : x >= y

RECURSIVE SumOver(_, _)
\* sum([f[i] for i in 1..n]) for a sequence f of integers
SumOver(f, n) == IF n = 0 THEN 0 ELSE f[n] + SumOver(f, n - 1)

Range(s) == {s[i] : i \in 1..Len(s)}

\* -------------------------------------------------------------- partitions
\* A partition is a list of blocks, a block a list of elements, as in
\* partitions.py; a generator is the list of what it yields, in order.
RECURSIVE ConcatAll(_, _)
\* the concatenation of the first n lists of a list of lists
ConcatAll(lists, n) ==
    IF n = 0 THEN << >> ELSE ConcatAll(lists, n - 1) \o lists[n]

\* smaller[:n] + [[first] + subset] + smaller[n+1:], for the n-th block
\* (counted from 1) of smaller
InsertIntoBlock(first, smaller, n) ==
    SubSeq(smaller, 1, n - 1) \o << <<first>> \o smaller[n] >>
        \o SubSeq(smaller, n + 1, Len(smaller))

\* what the body of the loop `for smaller in ...` yields for one smaller
\* partition; own_subset tells whether the last yield is made
YieldsFor(first, smaller, own_subset) ==
    [n \in 1..Len(smaller) |-> InsertIntoBlock(first, smaller, n)]
        \o (IF own_subset THEN << << <<first>> >> \o smaller >> ELSE << >>)

RECURSIVE partitions(_)
\* partitions.partitions(collection), collection a non-empty list
partitions(collection) ==
    IF Len(collection) = 1 THEN << <<collection>> >>
    ELSE LET first == collection[1]
             subpartitions == partitions(Tail(collection))
         IN  ConcatAll([k \in 1..Len(subpartitions) |->
                           YieldsFor(first, subpartitions[k], TRUE)],
                       Len(subpartitions))

\* partitions.partitions_to_at_most_c(collection, c)
partitions_to_at_most_c(collection, c) ==
    IF Len(collection) = 1 THEN << <<collection>> >>
    ELSE LET first == collection[1]
             subpartitions == partitions(Tail(collection))
         IN  ConcatAll([k \in 1..Len(subpartitions) |->
                           YieldsFor(first, subpartitions[k],
                                     Len(subpartitions[k]) < c)],
                       Len(subpartitions))

\* partitions_to_exactly_c without its filter: not the code.
partitions_to_exactly_c_unfiltered(collection, c) ==
    partitions_to_at_most_c(collection, c)

\* partitions.partitions_to_exactly_c(collection, c)
partitions_to_exactly_c(collection, c) ==
    SelectSeq(partitions_to_at_most_c(collection, c),
              LAMBDA p : Len(p) = c)

\* ------------------------------------------------------------------ agents
\* BinaryAgent.value: len(desired_goods & goods)
BinaryValue(desired, bundle) == Cardinality(desired \cap bundle)

\* AdditiveAgent.value of a list of goods: sum([map_good_to_value[g] ...])
AdditiveValueOfList(map_good_to_value, goods_list) ==
    SumOver([i \in 1..Len(goods_list) |-> map_good_to_value[goods_list[i]]],
            Len(goods_list))

\* sorted(bundle, key = ...): the goods of the bundle in a list that ascends
\* in key (goods of equal key come in an order the set decides; they are
\* interchangeable in what the callers compute, a sum of values over a
\* suffix of the list, when the key is the value or its negation).
SortedBy(bundle, key) ==
    CHOOSE s \in [1..Cardinality(bundle) -> bundle] :
        \A i, j \in 1..Cardinality(bundle) :
            i < j => (s[i] # s[j] /\ key[s[i]] <= key[s[j]])

\* list[c:] of a list of n elements, c < n
DropFirst(list, n, c) == [i \in 1..(n - c) |-> list[i + c]]

\* AdditiveAgent.value of a set of goods
AdditiveValue(map_good_to_value, bundle) ==
    AdditiveValueOfList(map_good_to_value,
        SortedBy(bundle, [g \in bundle |-> 0]))

\* Agent.value, dispatched on the agent's class.
Value(agent, bundle) ==
    CASE agent.kind = "binary"   -> BinaryValue(agent.desired_goods, bundle)
      [] agent.kind = "monotone" -> agent.map_bundle_to_value[bundle]
      [] agent.kind = "additive" ->
             AdditiveValue(agent.map_good_to_value, bundle)

\* BinaryAgent.__init__ -> Agent.__init__: desired_goods, total_value,
\* cardinality.  target_value is the field Family.__init__ writes later.
BinaryAgent(desired, cardinality) ==
    [kind |-> "binary", desired_goods |-> desired,
     total_value |-> BinaryValue(desired, desired),
     cardinality |-> cardinality, target_value |-> 0]

\* MonotoneAgent.__init__: the explicit valuation, with the empty bundle
\* normalised to 0; desired_goods is a bundle of largest value (the full
\* set of goods is one, the valuation being monotone).
MonotoneAgent(map, cardinality) ==
    [kind |-> "monotone", desired_goods |-> Goods,
     map_bundle_to_value |-> [map EXCEPT ![{}] = 0],
     total_value |-> map[Goods],
     cardinality |-> cardinality, target_value |-> 0]

\* AdditiveAgent.__init__: the value of each good; the desired goods are
\* those of positive value.
AdditiveAgent(map_good_to_value, cardinality) ==
    LET desired == {g \in DOMAIN map_good_to_value : map_good_to_value[g] > 0}
    IN  [kind |-> "additive", desired_goods |-> desired,
         map_good_to_value |-> map_good_to_value,
         total_value |-> AdditiveValue(map_good_to_value, desired),
         cardinality |-> cardinality, target_value |-> 0]

\* MonotoneAgent.__init__ when the valuation lists first, among its bundles
\* of largest value, the bundle desired: max(keys, key = value) returns
\* that one.
MonotoneAgentDesiring(map, desired, cardinality) ==
    [MonotoneAgent(map, cardinality) EXCEPT !.desired_goods = desired]

\* itertools.combinations(bundle, c), as sets
Combinations(bundle, c) == {G \in SUBSET bundle : Cardinality(G) = c}

\* Agent.value_except_best_c_goods (the enumeration of the base class),
\* BinaryAgent.value_except_best_c_goods (the closed form) and
\* AdditiveAgent.value_except_best_c_goods (sort from best to worst, drop
\* the first c).
value_except_best_c_goods(agent, bundle, c) ==
    IF Cardinality(bundle) <= c THEN 0
    ELSE IF agent.kind = "binary" THEN Value(agent, bundle) - c
    ELSE IF agent.kind = "additive"
    THEN LET sorted_bundle ==
                 SortedBy(bundle,
                     [g \in bundle |-> 0 - agent.map_good_to_value[g]])
         IN  AdditiveValueOfList(agent.map_good_to_value,
                 DropFirst(sorted_bundle, Cardinality(bundle), c))
    ELSE MinOfSet({Value(agent, bundle \ sub_bundle) :
                        sub_bundle \in Combinations(bundle, c)})

\* value_except_worst_c_goods with the binary closed form applied to
\* bundles of every size: not the code.
value_except_worst_c_goods_unguarded(agent, bundle, c) ==
    IF agent.kind = "binary" THEN Value(agent, bundle) - c
    ELSE IF Cardinality(bundle) <= c THEN 0
    ELSE IF agent.kind = "additive"
    THEN LET sorted_bundle ==
                 SortedBy(bundle, [g \in bundle |-> agent.map_good_to_value[g]])
         IN  AdditiveValueOfList(agent.map_good_to_value,
                 DropFirst(sorted_bundle, Cardinality(bundle), c))
    ELSE MaxOfSet({Value(agent, bundle \ sub_bundle) :
                        sub_bundle \in Combinations(bundle, c)})

\* Agent.value_except_worst_c_goods (the enumeration of the base class),
\* BinaryAgent.value_except_worst_c_goods (the closed form) and
\* AdditiveAgent.value_except_worst_c_goods (sort from worst to best, drop
\* the first c).
value_except_worst_c_goods(agent, bundle, c) ==
    IF Cardinality(bundle) <= c THEN 0
    ELSE IF agent.kind = "binary" THEN Value(agent, bundle) - c
    ELSE IF agent.kind = "additive"
    THEN LET sorted_bundle ==
                 SortedBy(bundle, [g \in bundle |-> agent.map_good_to_value[g]])
         IN  AdditiveValueOfList(agent.map_good_to_value,
                 DropFirst(sorted_bundle, Cardinality(bundle), c))
    ELSE MaxOfSet({Value(agent, bundle \ sub_bundle) :
                        sub_bundle \in Combinations(bundle, c)})

\* Agent.__init__: desired_goods_list = sorted(desired_goods)
desired_goods_list(agent) ==
    SortedBy(agent.desired_goods, [g \in agent.desired_goods |-> g])

\* Agent.values_1_of_c_partitions(c): the list of the values yielded, the
\* least value of a block for each partition of the desired goods into
\* exactly c blocks.
values_1_of_c_partitions(agent, c) ==
    LET ps == partitions_to_exactly_c(desired_goods_list(agent), c)
    IN  [k \in 1..Len(ps) |->
            MinOfSet({Value(agent, Range(ps[k][i])) : i \in 1..Len(ps[k])})]

\* Agent.value_1_of_c_MMS(c), the method of the base class
Agent_value_1_of_c_MMS(agent, c) ==
    IF c > Cardinality(agent.desired_goods) THEN 0
    ELSE MaxOfSet(Range(values_1_of_c_partitions(agent, c)))

\* value_1_of_c_MMS over the partitions into at most c blocks: not the
\* code.
value_1_of_c_MMS_at_most(agent, c) ==
    IF agent.kind = "binary" THEN agent.total_value \div c
    ELSE IF c > Cardinality(agent.desired_goods) THEN 0
    ELSE LET ps == partitions_to_at_most_c(desired_goods_list(agent), c)
         IN  MaxOfSet({MinOfSet({Value(agent, Range(ps[k][i])) :
                                     i \in 1..Len(ps[k])}) :
                           k \in 1..Len(ps)})

\* agent.value_1_of_c_MMS(c): BinaryAgent overrides it with
\* math.floor(total_value / c).
value_1_of_c_MMS(agent, c) ==
    IF agent.kind = "binary" THEN agent.total_value \div c
    ELSE Agent_value_1_of_c_MMS(agent, c)

\* Agent.is_PROPc(own_bundle, num_of_agents, c): the goods excepted are
\* num_of_agents - 1, whatever c is.
is_PROPc(agent, own_bundle, num_of_agents, c) ==
    LET own_value == Value(agent, own_bundle)
        total_except_best_c ==
            value_except_best_c_goods(agent, agent.desired_goods,
                                      num_of_agents - 1)
    IN  own_value * num_of_agents >= total_except_best_c

\* Agent.is_EFc; all_bundles is a sequence of bundles.
is_EFc(agent, own_bundle, all_bundles, c) ==
    LET own_value == Value(agent, own_bundle)
    IN  \A j \in 1..Len(all_bundles) :
            ~(own_value < value_except_best_c_goods(agent, all_bundles[j], c))

\* ------------------------------------------------------- fairness criteria
OneOfBestC(c) == [name |-> "OneOfBestC", c |-> c, n |-> 0]
MaximinShareOneOfC(c) == [name |-> "MaximinShareOneOfC", c |-> c, n |-> 0]
EnvyFreeExceptC(c) == [name |-> "EnvyFreeExceptC", c |-> c, n |-> 0]
ProportionalExceptC(n, c) == [name |-> "ProportionalExceptC", c |-> c, n |-> n]

\* OneOfBestC.target_value_for_binary
OneOfBestC_target(c, total_value) == IF total_value >= c THEN 1 ELSE 0

\* MaximinShareOneOfC.target_value_for_binary (approximation_factor = 1)
MaximinShare_target(c, total_value) == total_value \div c

\* ProportionalExceptC.target_value_for_binary: max(0, ceil((r - c)/n))
Proportional_target(n, c, total_value) ==
    IF total_value - c <= 0 THEN 0 ELSE (total_value - c + n - 1) \div n

\* criterion.target_value_for_binary(total_value), dispatched on the class
\* of the criterion: the number returned, or the exception raised
\* (EnvyFreeExceptC raises ValueError).
target_value_for_binary(criterion, total_value) ==
    CASE criterion.name = "OneOfBestC" ->
             [returns |-> OneOfBestC_target(criterion.c, total_value)]
      [] criterion.name = "MaximinShareOneOfC" ->
             [returns |-> MaximinShare_target(criterion.c, total_value)]
      [] criterion.name = "ProportionalExceptC" ->
             [returns |-> Proportional_target(criterion.n, criterion.c,
                                              total_value)]
      [] criterion.name = "EnvyFreeExceptC" ->
             [raises |-> "ValueError"]

\* FairnessCriterion.target_value_for(total_value): called by
\* Family.__init__, not defined in fairness_criteria.py; it takes the total
\* value, as target_value_for_binary does.  The envy-based criterion has no
\* target (0 stands for "not relevant": nothing reads it).
target_value_for(criterion, total_value) ==
    CASE criterion.name = "OneOfBestC" ->
            OneOfBestC_target(criterion.c, total_value)
      [] criterion.name = "MaximinShareOneOfC" ->
            MaximinShare_target(criterion.c, total_value)
      [] criterion.name = "ProportionalExceptC" ->
            Proportional_target(criterion.n, criterion.c, total_value)
      [] criterion.name = "EnvyFreeExceptC" -> 0

\* FairnessCriterion.target_value_for_agent(agent): the agent methods the
\* threshold criteria call here are not in agents.py; the target is the one
\* of the table of criteria, computed from the agent's total value.
target_value_for_agent(criterion, agent) ==
    target_value_for(criterion, agent.total_value)

\* FairnessCriterion.is_fair_for, and its override in EnvyFreeExceptC.
is_fair_for(criterion, agent, own_bundle, all_bundles) ==
    IF criterion.name = "EnvyFreeExceptC"
    THEN is_EFc(agent, own_bundle, all_bundles, criterion.c)
    ELSE Value(agent, own_bundle) >= target_value_for_agent(criterion, agent)

\* ---------------------------------------------------------------- families
\* Family.__init__: members, fairness_criterion, num_of_members, and the
\* write of target_value onto every member.
Family(members, criterion) ==
    [members |-> [i \in 1..Len(members) |->
                    [members[i] EXCEPT !.target_value =
                        target_value_for(criterion, members[i].total_value)]],
     fairness_criterion |-> criterion,
     num_of_members |->
        SumOver([i \in 1..Len(members) |-> members[i].cardinality],
                Len(members))]

\* Family.num_of_members_with(predicate): predicate[i] is the value of the
\* predicate on the i-th member.
num_of_members_with(family, predicate) ==
    SumOver([i \in 1..Len(family.members) |->
                IF predicate[i]
                THEN family.members[i].cardinality ELSE 0],
            Len(family.members))

\* Family.num_of_happy_members
num_of_happy_members(family, bundle, all_bundles) ==
    LET Happy(member) ==
            is_fair_for(family.fairness_criterion, member, bundle, all_bundles)
    IN  num_of_members_with(family,
            [m \in 1..Len(family.members) |-> Happy(family.members[m])])

\* ----------------------------------------------------- RWAV voting weights
\* Weights are dyadic rationals with denominator at most 2^r, r <= NumGoods;
\* they are kept as integers in units of 1/WeightScale, where the floats of
\* the source are exact.
WeightScale == Pow2(NumGoods)

RECURSIVE balance_without_min(_, _)
\* balance with the first operand of min returned: not the code.
balance_without_min(r, s) ==
    IF s <= 0 THEN WeightScale
    ELSE IF s > r THEN 0
    ELSE (balance_without_min(r - 1, s) + balance_without_min(r - 1, s - 1))
             \div 2

RECURSIVE balance(_, _)
\* rwav_protocol.balance, times WeightScale
balance(r, s) ==
    IF s <= 0 THEN WeightScale
    ELSE IF s > r THEN 0
    ELSE LET val1 == (balance(r - 1, s) + balance(r - 1, s - 1)) \div 2
             val2 == balance(r - 2, s - 1)
         IN  Min2(val1, val2)

\* A variant of weight, used to test the claims: the difference is taken
\* one good later.
weight_of_next(r, s) == balance(r + 1, s) - balance(r, s)

\* rwav_protocol.weight, times WeightScale
weight(r, s) == balance(r, s) - balance(r - 1, s)

\* rwav_protocol.member_weight
member_weight(member, target_value, owned_goods, remaining_goods) ==
    LET member_remaining_value == Value(member, remaining_goods)
        member_current_value == Value(member, owned_goods)
        member_should_get_value == target_value - member_current_value
    IN  weight(member_remaining_value, member_should_get_value)

\* map_good_to_total_weight[good] as choose_good accumulates it
map_good_to_total_weight(family, owned_goods, remaining_goods, good) ==
    SumOver([i \in 1..Len(family.members) |->
                IF good \in family.members[i].desired_goods
                THEN member_weight(family.members[i],
                                   family.members[i].target_value,
                                   owned_goods, remaining_goods)
                     * family.members[i].cardinality
                ELSE 0],
            Len(family.members))

\* A variant of choose_good, used to test the claims: it looks for the
\* heaviest good among all the goods the family's members desire, instead of
\* among the remaining ones.
choose_good_among_desired(family, owned_goods, remaining) ==
    LET desired == UNION {family.members[i].desired_goods :
                             i \in 1..Len(family.members)}
        pool == IF desired = {} THEN remaining ELSE desired
    IN  CHOOSE g \in pool :
            \A h \in pool :
                LET wg == map_good_to_total_weight(family, owned_goods,
                                                   remaining, g)
                    wh == map_good_to_total_weight(family, owned_goods,
                                                   remaining, h)
                IN  \/ wg > wh
                    \/ (wg = wh /\ g <= h)

\* A variant of choose_good that returns the largest of the heaviest goods:
\* not the code.
choose_good_last_among_ties(family, owned_goods, remaining) ==
    CHOOSE g \in remaining :
        \A h \in remaining :
            LET wg == map_good_to_total_weight(family, owned_goods,
                                               remaining, g)
                wh == map_good_to_total_weight(family, owned_goods,
                                               remaining, h)
            IN  \/ wg > wh
                \/ (wg = wh /\ g >= h)

\* rwav_protocol.choose_good:
\* min(remaining_goods, key = (-total weight, good))
choose_good(family, owned_goods, remaining_goods) ==
    CHOOSE g \in remaining_goods :
        \A h \in remaining_goods :
            LET wg == map_good_to_total_weight(family, owned_goods,
                                               remaining_goods, g)
                wh == map_good_to_total_weight(family, owned_goods,
                                               remaining_goods, h)
            IN  \/ wg > wh
                \/ (wg = wh /\ g <= h)

RECURSIVE rwav_loop(_, _, _, _)
\* The while loop of rwav_protocol.allocate, lines 43-53, run to its end
\* from the given bundles, pool and family index.
rwav_loop(fams, bs, remaining, index) ==
    IF remaining = {} THEN bs
    ELSE LET g == choose_good(fams[index + 1], bs[index + 1], remaining)
         IN  rwav_loop(fams, [bs EXCEPT ![index + 1] = @ \cup {g}],
                       remaining \ {g}, (index + 1) % Len(fams))

\* rwav_protocol.allocate for two families: what it returns.
rwav_allocate(fams, gs) ==
    rwav_loop(fams, [f \in 1..Len(fams) |-> {}], gs, 0)

\* ------------------------------------------------------------------ inputs
\* The threshold argument of the enhanced protocol, a fraction num/den in
\* [0,1]; quarters are exact as floats, and so are their products with
\* the member counts.
Thresholds == {[num |-> k, den |-> 4] : k \in 2..4}
NoThreshold == [num |-> 0, den |-> 1]

\* The desired set with characteristic number code (bit g-1 is good g).
DesiredOf(code) == {g \in Goods : (code \div Pow2(g - 1)) % 2 = 1}

RECURSIVE BinaryMemberLists(_, _)
\* Member lists of binary agents, one record per agent type (types in
\* increasing code order), with cardinalities summing to at most budget.
BinaryMemberLists(minCode, budget) ==
    {<< >>} \cup
    UNION {{<<BinaryAgent(DesiredOf(code), c)>> \o rest :
                rest \in BinaryMemberLists(code + 1, budget - c)} :
           code \in minCode..(Pow2(NumGoods) - 1), c \in 1..budget}

ListSize(members) ==
    SumOver([i \in 1..Len(members) |-> members[i].cardinality], Len(members))

\* Non-empty member lists of at most budget members.
BinaryLists(budget) == BinaryMemberLists(0, budget) \ {<< >>}

\* Two member lists with at most budget members together.
BinaryListPairs(budget) ==
    UNION {{<<a, b>> : b \in BinaryLists(budget - ListSize(a))} :
           a \in BinaryLists(budget - 1)}

\* Monotone valuations of the bundles of goods, with values 0..top and the
\* empty bundle worth 0.
MonotoneMaps(top) ==
    {f \in [SUBSET Goods -> 0..top] :
        /\ f[{}] = 0
        /\ \A B \in SUBSET Goods : \A g \in B : f[B \ {g}] <= f[B]}

RECURSIVE MonotoneMemberLists(_, _)
\* Member lists of monotone agents with valuations drawn from maps (a set
\* shrinking along the list, so that each valuation is listed once), with
\* cardinalities summing to at most budget.
MonotoneMemberLists(maps, budget) ==
    IF maps = {} \/ budget = 0 THEN {<< >>}
    ELSE LET f == CHOOSE x \in maps : TRUE
         IN  MonotoneMemberLists(maps \ {f}, budget) \cup
             UNION {{<<MonotoneAgent(f, c)>> \o rest :
                        rest \in MonotoneMemberLists(maps \ {f}, budget - c)} :
                    c \in 1..budget}

MonotoneLists(budget) ==
    MonotoneMemberLists(MonotoneMaps(MaxValue), budget) \ {<< >>}

\* Two lists of monotone agents with at most budget members together.
MonotoneListPairs(budget) ==
    UNION {{<<a, b>> : b \in MonotoneLists(budget - ListSize(a))} :
           a \in MonotoneLists(budget - 1)}

\* Three lists of binary agents with at most budget members together.
BinaryListTriples(budget) ==
    UNION {{<<p[1], p[2], c>> :
                c \in BinaryLists(budget - ListSize(p[1]) - ListSize(p[2]))} :
           p \in BinaryListPairs(budget - 1)}

\* The lines of goods: the goods in their natural order, whole or cut short,
\* and one line out of order.
Lines ==
    {[i \in 1..n |-> i] : n \in 0..NumGoods}
    \cup {[i \in 1..NumGoods |-> (i % NumGoods) + 1]}

LineCriteria == {EnvyFreeExceptC(c) : c \in 0..1}

RwavCriteria == {OneOfBestC(2), MaximinShareOneOfC(2)}

\* The goods handed to a protocol: a prefix of the universe (members may
\* desire goods that are not on offer).
GoodsInputs == {1..n : n \in 0..NumGoods}

\* ------------------------------------------------------------------- state
VARIABLES
    protocol,        \* which allocate() is running
    families,        \* its families argument
    goods,           \* its goods argument, as a set
    threshold,       \* enhanced RWAV: its threshold argument, num/den
    pc,              \* "start", a position in the code, "done" (returned)
                     \* or the type of the exception raised
    bundles,         \* the bundles under construction / returned
    remaining_goods, \* RWAV: the pool
    family_index,    \* RWAV: whose turn (0-based)
    turn_index,      \* RWAV: turns taken
    iteration,       \* two-thirds: the round being run (0-based)
    num_of_moves,    \* two-thirds: how many goods the call has moved so far
    change,          \* two-thirds: whether this round moved a good
    todo,            \* goods of the current for-loop not yet visited
    line,            \* line protocol: its goods argument, a list
    routine,         \* line protocol: "_allocate_2" or "_allocate_k"
    cur_families,    \* line protocol: the families list of the current
                     \* call, as indices into the families argument
    left_sequence,   \* line protocol: the prefix left of the cut
    right_sequence,  \* line protocol: the suffix right of the cut
    stack,           \* line protocol: the calls of _allocate_k waiting for
                     \* their recursive call, innermost last
    awarded,         \* history: the bundle each family was given
    subsimplex_vertices,  \* plurality: its second argument, a list of
                     \* partial partitions (lists of bundles)
    map_family_index_to_best_index,  \* plurality: the winning index of the
                     \* families that voted so far
    best_indices,    \* plurality: the set of those indices
    call,            \* a library function called on its own: its name and
                     \* its arguments
    result,          \* what that call returned
    agent_objects,   \* the Agent objects made by the caller, by identity
    family_objects   \* the Family objects made over them; the members of
                     \* a Family object are identities of Agent objects

vars == <<protocol, families, goods, threshold, pc, bundles,
          remaining_goods, family_index, turn_index, iteration, num_of_moves,
          change, todo,
          line, routine, cur_families, left_sequence, right_sequence, stack,
          awarded, subsimplex_vertices, map_family_index_to_best_index,
          best_indices, call, result, agent_objects, family_objects>>

rwavVars == <<remaining_goods, family_index, turn_index>>
ttVars == <<iteration, change, num_of_moves>>
inputVars == <<protocol, families, goods, threshold, line,
               subsimplex_vertices, call, result, agent_objects,
               family_objects>>
lineVars == <<routine, cur_families, left_sequence, right_sequence, stack,
              awarded>>
plurVars == <<map_family_index_to_best_index, best_indices>>

NoCall == [function |-> "none"]
NoResult == "none"

\* The working variables of the protocols before any call.
WorkInit ==
    /\ bundles = << >>
    /\ remaining_goods = {}
    /\ family_index = 0
    /\ turn_index = 0
    /\ iteration = 0
    /\ num_of_moves = 0
    /\ change = FALSE
    /\ todo = {}
    /\ routine = "none"
    /\ cur_families = << >>
    /\ left_sequence = << >>
    /\ right_sequence = << >>
    /\ stack = << >>
    /\ awarded = << >>
    /\ map_family_index_to_best_index = << >>
    /\ best_indices = {}

\* Before the call of a protocol: nothing allocated yet.
ControlInit ==
    /\ pc = "start"
    /\ call = NoCall
    /\ result = NoResult
    /\ agent_objects = << >>
    /\ family_objects = << >>
    /\ WorkInit

\* No protocol runs.
IdleInit ==
    /\ protocol = "none"
    /\ families = << >>
    /\ goods = {}
    /\ threshold = NoThreshold
    /\ line = << >>
    /\ subsimplex_vertices = << >>
    /\ pc = "start"
    /\ result = NoResult
    /\ WorkInit

\* Before the call of a library function on its own.
LibraryInit ==
    /\ IdleInit
    /\ agent_objects = << >>
    /\ family_objects = << >>

runVars == <<protocol, families, goods, threshold, line,
             subsimplex_vertices, bundles, rwavVars, ttVars, todo,
             lineVars, plurVars>>
protocolVars == <<runVars, agent_objects, family_objects>>

\* --------------------------------------------------------------- RWAV
\* rwav_protocol.allocate, lines 34-41: the family-count check (raise of a
\* str is a TypeError: an error is signalled), then the initialisation.
Rwav_enter ==
    /\ pc = "start"
    /\ protocol = "rwav"
    /\ \/ /\ Len(families) # 2
          /\ pc' = "TypeError"
          /\ UNCHANGED <<bundles, rwavVars>>
       \/ /\ Len(families) = 2
          /\ remaining_goods' = goods
          /\ bundles' = [f \in 1..Len(families) |-> {}]
          /\ turn_index' = 0
          /\ family_index' = 0
          /\ pc' = "rwav_loop"
    /\ UNCHANGED <<inputVars, lineVars, plurVars, ttVars, todo>>

\* One iteration of the while loop in which the turn does not pass to the
\* other family: not the code.
Rwav_turn_same_family ==
    /\ pc = "rwav_loop"
    /\ remaining_goods # {}
    /\ LET current_family == families[family_index + 1]
           current_family_bundle == bundles[family_index + 1]
           g == choose_good(current_family, current_family_bundle,
                            remaining_goods)
       IN  /\ bundles' = [bundles EXCEPT ![family_index + 1] = @ \cup {g}]
           /\ remaining_goods' = remaining_goods \ {g}
    /\ turn_index' = turn_index + 1
    /\ family_index' = family_index
    /\ UNCHANGED <<inputVars, lineVars, plurVars, pc, ttVars, todo>>

\* One iteration of the while loop, lines 43-52.
Rwav_turn ==
    /\ pc = "rwav_loop"
    /\ remaining_goods # {}
    /\ LET current_family == families[family_index + 1]
           current_family_bundle == bundles[family_index + 1]
           g == choose_good(current_family, current_family_bundle,
                            remaining_goods)
       IN  /\ bundles' = [bundles EXCEPT ![family_index + 1] = @ \cup {g}]
           /\ remaining_goods' = remaining_goods \ {g}
    /\ turn_index' = turn_index + 1
    /\ family_index' = (family_index + 1) % Len(families)
    /\ UNCHANGED <<inputVars, lineVars, plurVars, pc, ttVars, todo>>

\* The loop condition fails: return bundles, line 53.
Rwav_return ==
    /\ pc = "rwav_loop"
    /\ remaining_goods = {}
    /\ pc' = "done"
    /\ UNCHANGED <<inputVars, lineVars, plurVars, bundles, rwavVars, ttVars,
                   todo>>

NextRwav == Rwav_enter \/ Rwav_turn \/ Rwav_return

InitRwav ==
    /\ protocol = "rwav"
    /\ \E crit \in RwavCriteria :
          \/ \E p \in BinaryListPairs(MaxTotalMembers) :
                families = <<Family(p[1], crit), Family(p[2], crit)>>
          \/ \E m \in BinaryLists(1) :
                families \in {<< >>, <<Family(m, crit)>>,
                              <<Family(m, crit), Family(m, crit),
                                Family(m, crit)>>}
    /\ goods \in GoodsInputs
    /\ threshold = NoThreshold
    /\ line = << >>
    /\ subsimplex_vertices = << >>
    /\ ControlInit

SpecRwav == InitRwav /\ [][NextRwav]_vars

\* ------------------------------------------------------------- two-thirds
\* twothirds_protocol.allocate, lines 37-38
num_of_iterations(fams) ==
    2 * SumOver([i \in 1..Len(fams) |-> fams[i].num_of_members], Len(fams))

\* The two counts of lines 44-45 (scanning bundles[0], src = 1, dst = 2) and
\* of lines 52-53 (scanning bundles[1], src = 2, dst = 1), 1-based here:
\* members of the receiving family who want g and hold nothing they want,
poor_in_receiver(fams, bs, dst, g) ==
    LET Poor(member) == Value(member, {g}) > 0 /\ Value(member, bs[dst]) = 0
    IN  num_of_members_with(fams[dst],
            [m \in 1..Len(fams[dst].members) |-> Poor(fams[dst].members[m])])

\* A variant of poor_in_giver, used to test the claims: it counts the members
\* who hold nothing they want, as poor_in_receiver does.
poor_in_giver_with_nothing(fams, bs, src, g) ==
    LET Poor(member) == Value(member, {g}) > 0 /\ Value(member, bs[src]) = 0
    IN  num_of_members_with(fams[src],
            [m \in 1..Len(fams[src].members) |-> Poor(fams[src].members[m])])

\* members of the giving family who want g and hold exactly one wanted good.
poor_in_giver(fams, bs, src, g) ==
    LET Poor(member) == Value(member, {g}) > 0 /\ Value(member, bs[src]) = 1
    IN  num_of_members_with(fams[src],
            [m \in 1..Len(fams[src].members) |-> Poor(fams[src].members[m])])

\* Variants of move_condition, used to test the claims: the comparison
\* reversed, and the comparison made non-strict.
move_condition_reversed(fams, bs, src, dst, g) ==
    poor_in_receiver(fams, bs, dst, g) < poor_in_giver(fams, bs, src, g)

move_condition_or_equal(fams, bs, src, dst, g) ==
    poor_in_receiver(fams, bs, dst, g) >= poor_in_giver(fams, bs, src, g)

\* The if of lines 46 and 54.
move_condition(fams, bs, src, dst, g) ==
    poor_in_receiver(fams, bs, dst, g) > poor_in_giver(fams, bs, src, g)

\* A variant of move_good, used to test the claims: it puts g in the
\* receiving bundle and leaves it in the giving one.
move_good_without_remove(bs, src, dst, g) ==
    [bs EXCEPT ![dst] = @ \cup {g}]

\* Lines 48-49 and 56-57: g leaves bundles[src] and joins bundles[dst].
move_good(bs, src, dst, g) ==
    [bs EXCEPT ![src] = @ \ {g}, ![dst] = @ \cup {g}]

\* A variant of TwoThirds_enter, used to test the claims: its entry check
\* only refuses fewer than two families.
TwoThirds_enter_at_least_2 ==
    /\ pc = "start"
    /\ protocol = "twothirds"
    /\ \/ /\ Len(families) < 2
          /\ pc' = "TypeError"
          /\ UNCHANGED <<bundles, ttVars, todo>>
       \/ /\ Len(families) >= 2
          /\ bundles' = <<{}, goods>>
          /\ iteration' = 0
          /\ num_of_moves' = 0
          /\ change' = FALSE
          /\ todo' = {}
          /\ pc' = IF num_of_iterations(families) > 0
                   THEN "tt_scan0" ELSE "done"
    /\ UNCHANGED <<inputVars, lineVars, plurVars, rwavVars>>

\* Lines 31-39: the family-count check, the initial allocation (everything
\* to the second family) and the start of the first round.
TwoThirds_enter ==
    /\ pc = "start"
    /\ protocol = "twothirds"
    /\ \/ /\ Len(families) # 2
          /\ pc' = "TypeError"
          /\ UNCHANGED <<bundles, ttVars, todo>>
       \/ /\ Len(families) = 2
          /\ bundles' = <<{}, goods>>
          /\ iteration' = 0
          /\ num_of_moves' = 0
          /\ change' = FALSE
          /\ todo' = {}
          /\ pc' = IF num_of_iterations(families) > 0
                   THEN "tt_scan0" ELSE "done"
    /\ UNCHANGED <<inputVars, lineVars, plurVars, rwavVars>>

\* One iteration of "for g in list(bundles[0])", lines 43-50.  The list is a
\* copy of a set: its order is arbitrary.
TwoThirds_scan0 ==
    /\ pc = "tt_scan0"
    /\ \E g \in todo :
          /\ todo' = todo \ {g}
          /\ IF move_condition(families, bundles, 1, 2, g)
             THEN /\ bundles' = move_good(bundles, 1, 2, g)
                  /\ change' = TRUE
                  /\ num_of_moves' = num_of_moves + 1
             ELSE UNCHANGED <<bundles, change, num_of_moves>>
    /\ UNCHANGED <<inputVars, lineVars, plurVars, pc, rwavVars, iteration>>

\* The first for-loop is over: the second starts on a copy of bundles[1].
TwoThirds_to_scan1 ==
    /\ pc = "tt_scan0"
    /\ todo = {}
    /\ todo' = bundles[2]
    /\ pc' = "tt_scan1"
    /\ UNCHANGED <<inputVars, lineVars, plurVars, bundles, rwavVars, ttVars>>

\* One iteration of "for g in list(bundles[1])", lines 51-58.
TwoThirds_scan1 ==
    /\ pc = "tt_scan1"
    /\ \E g \in todo :
          /\ todo' = todo \ {g}
          /\ IF move_condition(families, bundles, 2, 1, g)
             THEN /\ bundles' = move_good(bundles, 2, 1, g)
                  /\ change' = TRUE
                  /\ num_of_moves' = num_of_moves + 1
             ELSE UNCHANGED <<bundles, change, num_of_moves>>
    /\ UNCHANGED <<inputVars, lineVars, plurVars, pc, rwavVars, iteration>>

\* Lines 59-61 and the for of line 39: break if the round changed nothing,
\* stop when the rounds are used up, else start the next round.
TwoThirds_end_round ==
    /\ pc = "tt_scan1"
    /\ todo = {}
    /\ \/ /\ ~change
          /\ pc' = "done"
          /\ UNCHANGED <<ttVars, todo>>
       \/ /\ change
          /\ iteration + 1 >= num_of_iterations(families)
          /\ pc' = "done"
          /\ UNCHANGED <<ttVars, todo>>
       \/ /\ change
          /\ iteration + 1 < num_of_iterations(families)
          /\ iteration' = iteration + 1
          /\ UNCHANGED num_of_moves
          /\ change' = FALSE
          /\ todo' = bundles[1]
          /\ pc' = "tt_scan0"
    /\ UNCHANGED <<inputVars, lineVars, plurVars, bundles, rwavVars>>

NextTwoThirds ==
    \/ TwoThirds_enter
    \/ TwoThirds_scan0
    \/ TwoThirds_to_scan1
    \/ TwoThirds_scan1
    \/ TwoThirds_end_round

InitTwoThirds ==
    /\ protocol = "twothirds"
    /\ \/ \E m \in BinaryLists(MaxFamilySize) :
             families = <<Family(m, OneOfBestC(2)), Family(m, OneOfBestC(2))>>
       \/ \E p \in BinaryListPairs(MaxTotalMembers) :
             families = <<Family(p[1], OneOfBestC(2)),
                          Family(p[2], OneOfBestC(2))>>
       \/ \E m \in BinaryLists(1) :
             families \in {<< >>, <<Family(m, OneOfBestC(2))>>,
                           <<Family(m, OneOfBestC(2)),
                             Family(m, OneOfBestC(2)),
                             Family(m, OneOfBestC(2))>>}
    /\ goods \in GoodsInputs
    /\ threshold = NoThreshold
    /\ line = << >>
    /\ subsimplex_vertices = << >>
    /\ ControlInit

SpecTwoThirds == InitTwoThirds /\ [][NextTwoThirds]_vars

\* ----------------------------------------------------------- enhanced RWAV
\* nums[f] of line 48: the members of family f who want g.
num_who_want(family, g) ==
    LET Wants(member) == Value(member, {g}) > 0
    IN  num_of_members_with(family,
            [m \in 1..Len(family.members) |-> Wants(family.members[m])])

\* nums[f] >= thresholds[f], with thresholds[f] = threshold * num_of_members
\* (line 46).
crosses_threshold(family, g, thr) ==
    num_who_want(family, g) * thr.den >= thr.num * family.num_of_members

\* Lines 42-46: the family-count check, goods = set(goods), thresholds.
Enhanced_enter ==
    /\ pc = "start"
    /\ protocol = "enhanced"
    /\ \/ /\ Len(families) # 2
          /\ pc' = "TypeError"
          /\ UNCHANGED todo
       \/ /\ Len(families) = 2
          /\ todo' = goods
          /\ pc' = "enh_scan"
    /\ UNCHANGED <<inputVars, lineVars, plurVars, bundles, rwavVars, ttVars>>

\* A variant of Enhanced_scan, used to test the claims: the bundles of line
\* 57 are built for the other family.
Enhanced_scan_misaligned ==
    /\ pc = "enh_scan"
    /\ \E g \in todo :
          IF crosses_threshold(families[1], g, threshold)
          THEN /\ bundles' = <<goods \ {g}, {g}>>
               /\ pc' = "done"
               /\ UNCHANGED todo
          ELSE IF crosses_threshold(families[2], g, threshold)
          THEN /\ bundles' = <<goods \ {g}, {g}>>
               /\ pc' = "done"
               /\ UNCHANGED todo
          ELSE /\ todo' = todo \ {g}
               /\ UNCHANGED <<bundles, pc>>
    /\ UNCHANGED <<inputVars, lineVars, plurVars, rwavVars, ttVars>>

\* One iteration of "for g in goods", lines 47-61; goods is a set, visited
\* in an arbitrary order.
Enhanced_scan ==
    /\ pc = "enh_scan"
    /\ \E g \in todo :
          IF crosses_threshold(families[1], g, threshold)
          THEN /\ bundles' = <<{g}, goods \ {g}>>
               /\ pc' = "done"
               /\ UNCHANGED todo
          ELSE IF crosses_threshold(families[2], g, threshold)
          THEN /\ bundles' = <<goods \ {g}, {g}>>
               /\ pc' = "done"
               /\ UNCHANGED todo
          ELSE /\ todo' = todo \ {g}
               /\ UNCHANGED <<bundles, pc>>
    /\ UNCHANGED <<inputVars, lineVars, plurVars, rwavVars, ttVars>>

\* Line 62: no good crossed; rwav_protocol.allocate(families, goods) starts
\* (its own family-count check passes: there are two families).
Enhanced_fall_back ==
    /\ pc = "enh_scan"
    /\ todo = {}
    /\ remaining_goods' = goods
    /\ bundles' = [f \in 1..Len(families) |-> {}]
    /\ turn_index' = 0
    /\ family_index' = 0
    /\ pc' = "rwav_loop"
    /\ UNCHANGED <<inputVars, lineVars, plurVars, ttVars, todo>>

NextEnhanced ==
    \/ Enhanced_enter
    \/ Enhanced_scan
    \/ Enhanced_fall_back
    \/ Rwav_turn
    \/ Rwav_return

InitEnhanced ==
    /\ protocol = "enhanced"
    /\ \/ \E p \in BinaryListPairs(MaxTotalMembers) :
             families = <<Family(p[1], OneOfBestC(2)),
                          Family(p[2], OneOfBestC(2))>>
       \/ \E m \in BinaryLists(1) :
             families \in {<< >>, <<Family(m, OneOfBestC(2))>>,
                           <<Family(m, OneOfBestC(2)),
                             Family(m, OneOfBestC(2)),
                             Family(m, OneOfBestC(2))>>}
    /\ goods \in GoodsInputs
    /\ threshold \in Thresholds
    /\ line = << >>
    /\ subsimplex_vertices = << >>
    /\ ControlInit

SpecEnhanced == InitEnhanced /\ [][NextEnhanced]_vars

\* ------------------------------------------------------------ line protocol
\* A variant of InsertAt, used to test the claims: list.append(x).
InsertAtEnd(seq, index, x) == Append(seq, x)

\* list.insert(index, x), index 0-based
InsertAt(seq, index, x) ==
    SubSeq(seq, 1, index) \o <<x>> \o SubSeq(seq, index + 1, Len(seq))

\* A variant of DeleteAt, used to test the claims: nothing is deleted.
DeleteNone(seq, index) == seq

\* del list[index], index 0-based
DeleteAt(seq, index) ==
    SubSeq(seq, 1, index) \o SubSeq(seq, index + 2, Len(seq))

\* A variant of accepts_left, used to test the claims: the family accepts
\* as soon as one member is happy.
accepts_left_if_any(fams, cur, index, left_bundle, right_bundle) ==
    num_of_happy_members(fams[cur[index + 1]], left_bundle,
                         <<right_bundle>>) >= 1

\* The test of lines 76-79 and 132-135 for the family at 0-based position
\* family_index of the current call, k the number of its families.
accepts_left(fams, cur, index, left_bundle, right_bundle) ==
    LET family == fams[cur[index + 1]]
        k == Len(cur)
    IN  num_of_happy_members(family, left_bundle, <<right_bundle>>) * k
            >= family.num_of_members

\* The family that takes the left bundle when the last of the accepting
\* families is taken: not the code.
last_accepting(accepting) == MaxOfSet(accepting)

\* for family_index in range(len(families)): ... return, lines 73-85 and
\* 129-141: of the positions of the families that accept the left bundle,
\* the loop reaches the least one first and returns there.
first_accepting(accepting) == MinOfSet(accepting)

\* A variant of Line_enter, used to test the claims: any number of families
\* other than 2 is refused with an error.
Line_enter_only_2 ==
    /\ pc = "start"
    /\ protocol = "line"
    /\ IF Len(families) = 2
       THEN /\ routine' = "_allocate_2"
            /\ cur_families' = [i \in 1..Len(families) |-> i]
            /\ right_sequence' = line
            /\ pc' = "line_call"
       ELSE /\ pc' = "TypeError"
            /\ UNCHANGED <<routine, cur_families, right_sequence>>
    /\ left_sequence' = << >>
    /\ stack' = << >>
    /\ awarded' = << >>
    /\ UNCHANGED <<inputVars, bundles, rwavVars, ttVars, todo, plurVars>>

\* line_protocol.allocate, lines 36-40, and the start of the routine called.
Line_enter ==
    /\ pc = "start"
    /\ protocol = "line"
    /\ routine' = IF Len(families) = 2 THEN "_allocate_2" ELSE "_allocate_k"
    /\ cur_families' = [i \in 1..Len(families) |-> i]
    /\ left_sequence' = << >>
    /\ right_sequence' = line
    /\ stack' = << >>
    /\ awarded' = << >>
    /\ pc' = "line_call"
    /\ UNCHANGED <<inputVars, bundles, rwavVars, ttVars, todo, plurVars>>

\* _allocate_k, lines 118-121: a single family gets all the goods of the call.
Line_base ==
    /\ pc = "line_call"
    /\ routine = "_allocate_k"
    /\ Len(cur_families) = 1
    /\ bundles' = <<Range(right_sequence)>>
    /\ awarded' = awarded @@ (cur_families[1] :> Range(right_sequence))
    /\ pc' = "line_return"
    /\ UNCHANGED <<inputVars, routine, cur_families, left_sequence,
                   right_sequence, stack, rwavVars, ttVars, todo, plurVars>>

\* One iteration of "for good in goods": _allocate_2, lines 70-88, and
\* _allocate_k, lines 126-143.  The families are asked in order; the first
\* to accept takes the left bundle, else the cut moves one good to the right.
Line_test ==
    /\ pc = "line_call"
    /\ ~(routine = "_allocate_k" /\ Len(cur_families) = 1)
    /\ right_sequence # << >>
    /\ LET left_bundle == Range(left_sequence)
           right_bundle == Range(right_sequence)
           accepting == {i \in 0..(Len(cur_families) - 1) :
                            accepts_left(families, cur_families, i,
                                         left_bundle, right_bundle)}
       IN  IF accepting = {}
           THEN /\ left_sequence' = Append(left_sequence, Head(right_sequence))
                /\ right_sequence' = Tail(right_sequence)
                /\ UNCHANGED <<pc, bundles, cur_families, stack, awarded>>
           ELSE LET index == first_accepting(accepting)
                    other_family_index == 1 - index
                IN  IF routine = "_allocate_2"
                    THEN /\ bundles' =
                              [i \in 1..2 |-> IF i = index + 1
                                              THEN left_bundle
                                              ELSE right_bundle]
                         /\ awarded' =
                              (cur_families[index + 1] :> left_bundle) @@
                              (cur_families[other_family_index + 1]
                                    :> right_bundle)
                         /\ pc' = "done"
                         /\ UNCHANGED <<cur_families, left_sequence,
                                        right_sequence, stack>>
                    ELSE /\ stack' = Append(stack,
                                        [family_index |-> index,
                                         left_bundle |-> left_bundle])
                         /\ awarded' = awarded @@
                              (cur_families[index + 1] :> left_bundle)
                         /\ cur_families' = DeleteAt(cur_families, index)
                         /\ left_sequence' = << >>
                         /\ UNCHANGED <<pc, bundles, right_sequence>>
    /\ UNCHANGED <<inputVars, routine, rwavVars, ttVars, todo, plurVars>>

\* The for loop ran out of goods: lines 89-90 and 144-145.
Line_exhausted ==
    /\ pc = "line_call"
    /\ ~(routine = "_allocate_k" /\ Len(cur_families) = 1)
    /\ right_sequence = << >>
    /\ pc' = "AssertionError"
    /\ UNCHANGED <<inputVars, lineVars, bundles, rwavVars, ttVars, todo,
                   plurVars>>

\* A recursive call returned: bundles.insert(family_index, left_bundle),
\* lines 139-141.
Line_insert ==
    /\ pc = "line_return"
    /\ stack # << >>
    /\ LET frame == stack[Len(stack)]
       IN  bundles' = InsertAt(bundles, frame.family_index, frame.left_bundle)
    /\ stack' = SubSeq(stack, 1, Len(stack) - 1)
    /\ UNCHANGED <<inputVars, routine, cur_families, left_sequence,
                   right_sequence, awarded, pc, rwavVars, ttVars, todo,
                   plurVars>>

\* The outermost call returns.
Line_finish ==
    /\ pc = "line_return"
    /\ stack = << >>
    /\ pc' = "done"
    /\ UNCHANGED <<inputVars, lineVars, bundles, rwavVars, ttVars, todo,
                   plurVars>>

NextLine ==
    \/ Line_enter
    \/ Line_base
    \/ Line_test
    \/ Line_exhausted
    \/ Line_insert
    \/ Line_finish

\* The families of the doctests of line_protocol.py, lines 23-24, with the
\* goods w, x, y, z numbered 1, 2, 3, 4.
DocumentedFamily1 ==
    Family(<<BinaryAgent({1, 2}, 1), BinaryAgent({2, 3}, 2),
             BinaryAgent({3, 4}, 3), BinaryAgent({4, 1}, 4)>>,
           EnvyFreeExceptC(1))

DocumentedFamily2 ==
    Family(<<BinaryAgent({1, 4}, 2), BinaryAgent({4, 3}, 3)>>,
           EnvyFreeExceptC(1))

\* Families with several members are swept along the whole line of goods in
\* its natural order; families of one member along every line; the two calls
\* of the doctests are made too.
InitLine ==
    /\ protocol = "line"
    /\ \E crit \in LineCriteria :
          \/ /\ line = [i \in 1..NumGoods |-> i]
             /\ \/ \E p \in MonotoneListPairs(MaxTotalMembers - 1) :
                      families = <<Family(p[1], crit), Family(p[2], crit)>>
                \/ \E p \in BinaryListPairs(MaxTotalMembers) :
                      families = <<Family(p[1], crit), Family(p[2], crit)>>
                \/ \E p \in BinaryListTriples(MaxTotalMembers) :
                      families = <<Family(p[1], crit), Family(p[2], crit),
                                   Family(p[3], crit)>>
          \/ /\ line \in Lines
             /\ \/ \E a, b \in MonotoneLists(1) :
                      families = <<Family(a, crit), Family(b, crit)>>
                \/ \E a, b \in BinaryLists(1) :
                      families = <<Family(a, crit), Family(b, crit)>>
                \/ \E a, b, c \in BinaryLists(1) :
                      families = <<Family(a, crit), Family(b, crit),
                                   Family(c, crit)>>
                \/ \E m \in BinaryLists(MaxFamilySize) :
                      families \in {<< >>, <<Family(m, crit)>>}
          \/ /\ crit = EnvyFreeExceptC(1)
             /\ \/ /\ families = <<DocumentedFamily1, DocumentedFamily2>>
                   /\ line = <<1, 2, 3, 4>>
                \/ /\ families = <<DocumentedFamily2, DocumentedFamily1>>
                   /\ line = <<2, 1, 3, 4>>
    /\ goods = {}
    /\ threshold = NoThreshold
    /\ subsimplex_vertices = << >>
    /\ ControlInit

SpecLine == InitLine /\ [][NextLine]_vars

\* ------------------------------------------------------ plurality protocol
\* Agent.best_index: max(range(len(partition)), key=value) is the first
\* index (0-based) of a bundle of largest value.
best_index(agent, partition) ==
    LET top == MaxOfSet({Value(agent, partition[i]) : i \in 1..Len(partition)})
    IN  MinOfSet({i \in 1..Len(partition) :
                     Value(agent, partition[i]) = top}) - 1

\* The votes list of best_index_by_plurality, lines 31-34.
votes(family, partition) ==
    [i \in 1..Len(partition) |->
        SumOver([m \in 1..Len(family.members) |->
                    IF best_index(family.members[m], partition) = i - 1
                    THEN family.members[m].cardinality ELSE 0],
                Len(family.members))]

\* A variant of best_index_by_plurality, used to test the claims: every
\* member counts for one vote, whatever its cardinality.
best_index_by_headcount(family, partition) ==
    LET v == [i \in 1..Len(partition) |->
                 Cardinality({m \in 1..Len(family.members) :
                     best_index(family.members[m], partition) = i - 1})]
        top == MaxOfSet({v[i] : i \in 1..Len(partition)})
    IN  MinOfSet({i \in 1..Len(partition) : v[i] = top}) - 1

\* best_index_by_plurality, line 35: the first index with the most votes.
best_index_by_plurality(family, partition) ==
    LET v == votes(family, partition)
        top == MaxOfSet({v[i] : i \in 1..Len(partition)})
    IN  MinOfSet({i \in 1..Len(partition) : v[i] = top}) - 1

\* find_plurality_EF2_allocation, lines 95-96.
Plurality_enter ==
    /\ pc = "start"
    /\ protocol = "plurality"
    /\ map_family_index_to_best_index' = << >>
    /\ best_indices' = {}
    /\ pc' = "plurality_vote"
    /\ UNCHANGED <<inputVars, lineVars, bundles, rwavVars, ttVars, todo>>

\* One iteration of the first loop, lines 97-105: family i votes on vertex i.
Plurality_vote ==
    /\ pc = "plurality_vote"
    /\ Len(map_family_index_to_best_index) < Len(families)
    /\ LET i == Len(map_family_index_to_best_index) + 1
           i_best == best_index_by_plurality(families[i],
                                             subsimplex_vertices[i])
       IN  IF i_best \in best_indices
           THEN /\ pc' = "returned_None"
                /\ UNCHANGED plurVars
           ELSE /\ best_indices' = best_indices \cup {i_best}
                /\ map_family_index_to_best_index' =
                      Append(map_family_index_to_best_index, i_best)
                /\ pc' = pc
    /\ UNCHANGED <<inputVars, lineVars, bundles, rwavVars, ttVars, todo>>

\* The second loop, lines 108-115: each family's bundle is the union, over
\* the vertices, of the sub-bundle at the family's winning index.
Plurality_allocation ==
    /\ pc = "plurality_vote"
    /\ Len(map_family_index_to_best_index) = Len(families)
    /\ bundles' =
          [i \in 1..Len(families) |->
              UNION {subsimplex_vertices[v]
                         [map_family_index_to_best_index[i] + 1] :
                     v \in 1..Len(subsimplex_vertices)}]
    /\ pc' = "done"
    /\ UNCHANGED <<inputVars, lineVars, plurVars, rwavVars, ttVars, todo>>

NextPlurality ==
    \/ Plurality_enter
    \/ Plurality_vote
    \/ Plurality_allocation

\* The partial partitions of the goods into two bundles.
PartialPartitions2 ==
    {<<A, B>> : A, B \in SUBSET Goods} \ 
    {p \in (SUBSET Goods) \X (SUBSET Goods) : p[1] \cap p[2] # {}}

\* Two partial partitions are adjacent when they agree on the place of every
\* good but at most one (the vertices of a subsimplex are pairwise adjacent).
Adjacent(p, q) ==
    Cardinality({g \in Goods : \E i \in 1..Len(p) :
                                  (g \in p[i]) # (g \in q[i])}) <= 1

\* The partitions of the goods into three non-empty bundles.
Partitions3 ==
    {p \in [1..3 -> SUBSET Goods] :
        /\ \A i \in 1..3 : p[i] # {}
        /\ \A i, j \in 1..3 : i # j => p[i] \cap p[j] = {}
        /\ UNION {p[i] : i \in 1..3} = Goods}

\* Two families vote on two adjacent partial partitions, the first with both
\* bundles non-empty; three families of one member vote on one partition.
InitPlurality ==
    /\ protocol = "plurality"
    /\ \/ /\ \E p \in BinaryListPairs(MaxTotalMembers - 1) :
                families = <<Family(p[1], OneOfBestC(2)),
                             Family(p[2], OneOfBestC(2))>>
          /\ \E v \in {w \in PartialPartitions2 : w[1] # {} /\ w[2] # {}} :
                \E u \in {w \in PartialPartitions2 : Adjacent(v, w)} :
                   subsimplex_vertices = <<v, u>>
       \/ /\ \E a, b, c \in BinaryLists(1) :
                families = <<Family(a, OneOfBestC(2)),
                             Family(b, OneOfBestC(2)),
                             Family(c, OneOfBestC(2))>>
          /\ \E v \in Partitions3 : subsimplex_vertices = <<v, v, v>>
    /\ goods = {}
    /\ threshold = NoThreshold
    /\ line = << >>
    /\ ControlInit

SpecPlurality == InitPlurality /\ [][NextPlurality]_vars

\* ------------------------------------------ all three two-family protocols
\* The protocols that accept exactly two families, each called with a list
\* of 0 to 3 families of one member.
NextFamilyCount ==
    \/ Rwav_enter
    \/ Rwav_turn
    \/ Rwav_return
    \/ Enhanced_enter
    \/ Enhanced_scan
    \/ Enhanced_fall_back
    \/ TwoThirds_enter
    \/ TwoThirds_scan0
    \/ TwoThirds_to_scan1
    \/ TwoThirds_scan1
    \/ TwoThirds_end_round

FamilyLists(budget) ==
    LET F == {Family(m, OneOfBestC(2)) : m \in BinaryLists(budget)}
    IN  {<< >>} \cup {<<a>> : a \in F} \cup (F \X F) \cup (F \X F \X F)

InitFamilyCount ==
    /\ families \in FamilyLists(1)
    /\ goods \in GoodsInputs
    /\ \/ /\ protocol \in {"rwav", "twothirds"}
          /\ threshold = NoThreshold
       \/ /\ protocol = "enhanced"
          /\ threshold \in Thresholds
    /\ line = << >>
    /\ subsimplex_vertices = << >>
    /\ ControlInit

SpecFamilyCount == InitFamilyCount /\ [][NextFamilyCount]_vars

\* ------------------------------------------------- balance, on its own
\* The arguments balance is called with: r from -MaxNegative to NumGoods
\* (the scaled result is exact as long as r <= NumGoods), s from
\* -MaxMissing to MaxMissing.
MaxNegative == 2
MaxMissing == 6

\* rwav_protocol.balance(r, s), lines 116-145; the result is kept scaled by
\* WeightScale.
Balance_call ==
    /\ pc = "start"
    /\ call.function = "balance"
    /\ result' = balance(call.r, call.s)
    /\ pc' = "done"
    /\ UNCHANGED <<protocolVars, call>>

\* rwav_protocol.weight(r, s), lines 147-166; the result is kept scaled by
\* WeightScale.
Weight_call ==
    /\ pc = "start"
    /\ call.function = "weight"
    /\ result' = weight(call.r, call.s)
    /\ pc' = "done"
    /\ UNCHANGED <<protocolVars, call>>

NextBalance ==
    \/ Balance_call
    \/ Weight_call

InitBalance ==
    /\ call \in [function : {"balance", "weight"},
                 r : (0 - MaxNegative)..NumGoods,
                 s : (0 - MaxMissing)..MaxMissing]
    /\ LibraryInit

SpecBalance == InitBalance /\ [][NextBalance]_vars

\* ---------------------------------------- methods of agents, on their own
\* A bundle is valued except c goods for c from 1 to MaxExcept; the goods of
\* an additive agent are worth 0 to MaxGoodValue each; partitions are made
\* of up to MaxElements elements, in 1 to MaxBlocks blocks.
MaxExcept == 2
MaxGoodValue == 2
MaxNumOfAgents == 3
MaxElements == 4
MaxBlocks == 4

\* One agent of each class over the goods 1..NumGoods: every binary agent,
\* every additive agent, every monotone agent with values up to top and
\* any of its bundles of largest value as its desired goods.
AgentInputs(top) ==
    {BinaryAgent(d, 1) : d \in SUBSET Goods}
        \cup {AdditiveAgent(m, 1) : m \in [Goods -> 0..MaxGoodValue]}
        \cup UNION {{MonotoneAgentDesiring(f, d, 1) :
                         d \in {b \in SUBSET Goods : f[b] = f[Goods]}} :
                    f \in MonotoneMaps(top)}

\* agent.value_except_best_c_goods(bundle, c), agents.py lines 56-78,
\* 323-346 and 439-441
Value_except_best_call ==
    /\ pc = "start"
    /\ call.function = "value_except_best_c_goods"
    /\ result' = value_except_best_c_goods(call.agent, call.bundle, call.c)
    /\ pc' = "done"
    /\ UNCHANGED <<protocolVars, call>>

\* agent.value_except_worst_c_goods(bundle, c), agents.py lines 80-96,
\* 349-371 and 443-445
Value_except_worst_call ==
    /\ pc = "start"
    /\ call.function = "value_except_worst_c_goods"
    /\ result' = value_except_worst_c_goods(call.agent, call.bundle, call.c)
    /\ pc' = "done"
    /\ UNCHANGED <<protocolVars, call>>

\* agent.value_1_of_c_MMS(c), agents.py lines 112-131 and 447-448
Value_1_of_c_MMS_call ==
    /\ pc = "start"
    /\ call.function = "value_1_of_c_MMS"
    /\ result' = value_1_of_c_MMS(call.agent, call.c)
    /\ pc' = "done"
    /\ UNCHANGED <<protocolVars, call>>

\* agent.is_PROPc(own_bundle, num_of_agents, c), agents.py lines 196-210
Is_PROPc_call ==
    /\ pc = "start"
    /\ call.function = "is_PROPc"
    /\ result' = is_PROPc(call.agent, call.bundle, call.num_of_agents, call.c)
    /\ pc' = "done"
    /\ UNCHANGED <<protocolVars, call>>

NextAgentValues ==
    \/ Value_except_best_call
    \/ Value_except_worst_call
    \/ Value_1_of_c_MMS_call
    \/ Is_PROPc_call

InitAgentValues ==
    /\ \/ call \in [function : {"value_except_best_c_goods",
                                "value_except_worst_c_goods"},
                    agent : AgentInputs(MaxValue + 1),
                    bundle : SUBSET Goods,
                    c : 1..MaxExcept]
       \/ call \in [function : {"value_1_of_c_MMS"},
                    agent : AgentInputs(MaxValue + 1),
                    c : 1..MaxBlocks]
       \/ call \in [function : {"is_PROPc"},
                    agent : AgentInputs(MaxValue + 1),
                    bundle : SUBSET Goods,
                    num_of_agents : 1..MaxNumOfAgents,
                    c : 0..MaxExcept]
    /\ LibraryInit

SpecAgentValues == InitAgentValues /\ [][NextAgentValues]_vars

\* ------------------------------------ partition generators, on their own
\* The collections are the lists of 1 to MaxElements distinct elements out of
\* 1..MaxElements; c runs from 1 to MaxBlocks.
Collections ==
    UNION {{q \in [1..n -> 1..MaxElements] :
                \A i, j \in 1..n : i # j => q[i] # q[j]} : n \in 1..MaxElements}

\* list(partitions_to_at_most_c(collection, c)), partitions.py lines 29-46
Partitions_to_at_most_c_call ==
    /\ pc = "start"
    /\ call.function = "partitions_to_at_most_c"
    /\ result' = partitions_to_at_most_c(call.collection, call.c)
    /\ pc' = "done"
    /\ UNCHANGED <<protocolVars, call>>

\* list(partitions_to_exactly_c(collection, c)), partitions.py lines 49-58
Partitions_to_exactly_c_call ==
    /\ pc = "start"
    /\ call.function = "partitions_to_exactly_c"
    /\ result' = partitions_to_exactly_c(call.collection, call.c)
    /\ pc' = "done"
    /\ UNCHANGED <<protocolVars, call>>

NextPartitions ==
    \/ Partitions_to_at_most_c_call
    \/ Partitions_to_exactly_c_call

InitPartitions ==
    /\ call \in [function : {"partitions_to_at_most_c",
                             "partitions_to_exactly_c"},
                 collection : Collections,
                 c : 1..MaxBlocks]
    /\ LibraryInit

SpecPartitions == InitPartitions /\ [][NextPartitions]_vars

\* ----------------------------------- fairness criteria, on their own
\* The criteria have c from 1 to MaxCriterionC (and n likewise); the total
\* value runs from 0 to MaxTotalValue.
MaxCriterionC == 3
MaxTotalValue == 9

CriterionInputs ==
    {OneOfBestC(c) : c \in 1..MaxCriterionC}
        \cup {MaximinShareOneOfC(c) : c \in 1..MaxCriterionC}
        \cup {EnvyFreeExceptC(c) : c \in 1..MaxCriterionC}
        \cup {ProportionalExceptC(n, c) :
                  n \in 1..MaxCriterionC, c \in 0..MaxCriterionC}

\* criterion.target_value_for_binary(total_value), fairness_criteria.py
\* lines 70-71, 97-98, 118-119 and 144-145: returns or raises.
Target_value_for_binary_call ==
    /\ pc = "start"
    /\ call.function = "target_value_for_binary"
    /\ LET outcome == target_value_for_binary(call.criterion, call.total_value)
       IN  IF "raises" \in DOMAIN outcome
           THEN pc' = outcome.raises /\ UNCHANGED result
           ELSE pc' = "done" /\ result' = outcome.returns
    /\ UNCHANGED <<protocolVars, call>>

NextCriteria == Target_value_for_binary_call

InitCriteria ==
    /\ call \in [function : {"target_value_for_binary"},
                 criterion : CriterionInputs,
                 total_value : 0..MaxTotalValue]
    /\ LibraryInit

SpecCriteria == InitCriteria /\ [][NextCriteria]_vars

\* ------------------------------------- families over shared Agent objects
\* Up to MaxAgentObjects Agent objects and MaxFamilyObjects Family objects.
MaxAgentObjects == 2
MaxFamilyObjects == 2

SharedCriteria == {OneOfBestC(1), OneOfBestC(2), MaximinShareOneOfC(2)}

\* The non-empty lists of distinct identities out of 1..n
MemberRefLists(n) ==
    UNION {{q \in [1..k -> 1..n] :
                \A i, j \in 1..k : i # j => q[i] # q[j]} : k \in 1..n}

\* Family.__init__ (families.py lines 34-39) over Agent objects the caller
\* holds: the new Family object keeps the members by reference, and the loop
\* of lines 38-39 writes target_value into each member object.
Family_init ==
    /\ Len(family_objects) < MaxFamilyObjects
    /\ \E members \in MemberRefLists(Len(agent_objects)),
          criterion \in SharedCriteria :
          /\ family_objects' = Append(family_objects,
                [members |-> members,
                 fairness_criterion |-> criterion,
                 num_of_members |->
                    SumOver([i \in 1..Len(members) |->
                                agent_objects[members[i]].cardinality],
                            Len(members))])
          /\ agent_objects' =
                [a \in 1..Len(agent_objects) |->
                    IF a \in Range(members)
                    THEN [agent_objects[a] EXCEPT !.target_value =
                             target_value_for(criterion,
                                 agent_objects[a].total_value)]
                    ELSE agent_objects[a]]
    /\ UNCHANGED <<runVars, pc, call, result>>

\* The Family object as the code reads it now: its members are the Agent
\* objects in their present state.
FamilyAsRead(family_object) ==
    [members |-> [i \in 1..Len(family_object.members) |->
                     agent_objects[family_object.members[i]]],
     fairness_criterion |-> family_object.fairness_criterion,
     num_of_members |-> family_object.num_of_members]

\* rwav_protocol.choose_good(family, owned_goods, remaining_goods), lines
\* 65-89, on one of the Family objects: member.target_value is read from
\* the Agent object (line 80).
Choose_good_call ==
    /\ \E k \in 1..Len(family_objects),
          remaining \in GoodsInputs \ {{}} :
          \E owned_goods \in SUBSET (Goods \ remaining) :
              /\ call' = [function |-> "choose_good", family |-> k,
                          owned_goods |-> owned_goods,
                          remaining_goods |-> remaining]
              /\ result' = choose_good(FamilyAsRead(family_objects[k]),
                                       owned_goods, remaining)
    /\ UNCHANGED <<runVars, pc, agent_objects, family_objects>>

NextSharedMembers == Family_init \/ Choose_good_call

InitSharedMembers ==
    /\ IdleInit
    /\ call = NoCall
    /\ family_objects = << >>
    /\ \E n \in 1..MaxAgentObjects :
          agent_objects \in [1..n -> {BinaryAgent(d, 1) : d \in SUBSET Goods}]

SpecSharedMembers == InitSharedMembers /\ [][NextSharedMembers]_vars

\* --------------------------------------------- the vote of one family
\* best_index_by_plurality and Agent.best_index called on their own, on a
\* list of 1 to MaxBundles bundles (any sets of goods: the doctest of
\* plurality_protocol.py line 27 passes the overlapping "xy", "yz").
MaxBundles == 3

BundleLists(n) == UNION {[1..k -> SUBSET Goods] : k \in 1..n}

\* member.best_index(partition), agents.py lines 40-53
Best_index_call ==
    /\ pc = "start"
    /\ call.function = "best_index"
    /\ result' = best_index(call.agent, call.partition)
    /\ pc' = "done"
    /\ UNCHANGED <<protocolVars, call>>

\* best_index_by_plurality(family, partition), plurality_protocol.py 19-37
Best_index_by_plurality_call ==
    /\ pc = "start"
    /\ call.function = "best_index_by_plurality"
    /\ result' = best_index_by_plurality(call.family, call.partition)
    /\ pc' = "done"
    /\ UNCHANGED <<protocolVars, call>>

NextVote ==
    \/ Best_index_call
    \/ Best_index_by_plurality_call

InitVote ==
    /\ \/ call \in [function : {"best_index"},
                    agent : AgentInputs(MaxValue),
                    partition : BundleLists(MaxBundles)]
       \/ \E members \in BinaryMemberLists(0, MaxFamilySize) :
             call \in [function : {"best_index_by_plurality"},
                       family : {Family(members, OneOfBestC(2))},
                       partition : BundleLists(MaxBundles)]
    /\ LibraryInit

SpecVote == InitVote /\ [][NextVote]_vars

\* ================================================================== claims
\* b1, b2 and rest are pairwise disjoint and together make up all.
ExactPartition(b1, b2, rest, all) ==
    /\ b1 \cap b2 = {}
    /\ b1 \cap rest = {}
    /\ b2 \cap rest = {}
    /\ b1 \cup b2 \cup rest = all

\* ---- C1
\* C1: in rwav_protocol.allocate with two families, in every state from the
\* initialisation to the return, the two bundles and the remaining pool are
\* pairwise disjoint and their union is the input goods; on return the pool
\* is empty, so the two returned bundles exactly partition the goods.
C1_RwavPartition ==
    (protocol = "rwav" /\ pc \in {"rwav_loop", "done"}) =>
        /\ Len(bundles) = 2
        /\ ExactPartition(bundles[1], bundles[2], remaining_goods, goods)
        /\ (pc = "done" => remaining_goods = {})

\* RWAV returned on all the goods, both families having taken some.
C1_Witness ==
    /\ protocol = "rwav"
    /\ pc = "done"
    /\ goods = Goods
    /\ bundles[1] # {}
    /\ bundles[2] # {}
    /\ turn_index = NumGoods

\* ---- C2
\* The cardinality-weighted number of members of families[i] who deem
\* bundles[i] envy-free except c goods against the other family's bundle.
num_deeming_EFc(i, c) ==
    LET Deems(member) == is_EFc(member, bundles[i], <<bundles[3 - i]>>, c)
        members == families[i].members
    IN  num_of_members_with(families[i],
            [m \in 1..Len(members) |-> Deems(members[m])])

\* C2: line_protocol.allocate with 2 families of agents with monotone
\* valuations (explicit monotone valuations, and binary ones, which are
\* monotone too), each bound to EnvyFreeExceptC(1), and a nonempty line of
\* goods, never ends in the AssertionError, and in the allocation it returns
\* the members of each family who deem their family's bundle EF1 against the
\* other bundle weigh at least half of the family's num_of_members.
C2_LineHalfOfEachFamilyEF1 ==
    (/\ protocol = "line"
     /\ Len(families) = 2
     /\ \A i \in 1..2 : families[i].fairness_criterion = EnvyFreeExceptC(1)
     /\ line # << >>) =>
        /\ pc # "AssertionError"
        /\ pc = "done" =>
              /\ Len(bundles) = 2
              /\ \A i \in 1..2 :
                    2 * num_deeming_EFc(i, 1) >= families[i].num_of_members

\* Two families of monotone agents were cut on the whole line, neither
\* bundle is empty, and a member of the second family envies by more than
\* one good.
C2_Witness ==
    /\ protocol = "line"
    /\ pc = "done"
    /\ Len(families) = 2
    /\ \A i \in 1..2 : families[i].fairness_criterion = EnvyFreeExceptC(1)
    /\ families[1].members[1].kind = "monotone"
    /\ Len(line) = NumGoods
    /\ bundles[1] # {}
    /\ bundles[2] # {}
    /\ num_deeming_EFc(2, 1) < families[2].num_of_members

\* ---- C6
\* C6: when line_protocol.allocate returns for k >= 1 families and a line
\* of distinct goods, the result is a list of k bundles, pairwise disjoint,
\* whose union is the goods of the line, and result[i] is the bundle that
\* was awarded to families[i] (the left prefix it accepted, or what the
\* recursive call or the base case gave it).
C6_LineAlignedPartition ==
    (protocol = "line" /\ pc = "done" /\ Len(families) >= 1) =>
        /\ Len(bundles) = Len(families)
        /\ \A i, j \in 1..Len(bundles) :
              i # j => bundles[i] \cap bundles[j] = {}
        /\ UNION {bundles[i] : i \in 1..Len(bundles)} = Range(line)
        /\ DOMAIN awarded = 1..Len(families)
        /\ \A i \in 1..Len(families) : bundles[i] = awarded[i]

\* Three families: the first cut was accepted by the last family, the
\* second by the second, and every family got a good.
C6_Witness ==
    /\ protocol = "line"
    /\ pc = "done"
    /\ Len(families) = 3
    /\ \A i \in 1..3 : bundles[i] # {}
    /\ 1 \in bundles[3]
    /\ NumGoods \in bundles[1]

\* ---- C3
\* Every member's desired goods are among the goods being allocated.
DesiredGoodsOnOffer ==
    \A i \in 1..Len(families) : \A j \in 1..Len(families[i].members) :
        families[i].members[j].desired_goods \subseteq goods

\* The cardinality-weighted number of members of the family whose value for
\* the bundle reaches the 1-of-best-2 target: 1 for a member who desires at
\* least 2 goods, else 0.
num_reaching_one_of_best_2(family, bundle) ==
    LET Reaches(member) ==
            Value(member, bundle) >=
                (IF Cardinality(member.desired_goods) >= 2 THEN 1 ELSE 0)
    IN  num_of_members_with(family,
            [m \in 1..Len(family.members) |-> Reaches(family.members[m])])

TwoThirdsDemocratic ==
    \A i \in 1..2 :
        3 * num_reaching_one_of_best_2(families[i], bundles[i])
            >= 2 * families[i].num_of_members

\* C3 (as amended): for two identical families of binary agents bound to
\* OneOfBestC(2), all of whose desired goods are among the goods allocated,
\* the allocation twothirds_protocol.allocate returns is 2/3-democratic
\* 1-of-best-2 fair: in each family the members whose value for the family's
\* bundle reaches their target weigh at least 2/3 of num_of_members.
C3_TwoThirdsDemocraticOnOffer ==
    (/\ protocol = "twothirds"
     /\ pc = "done"
     /\ Len(families) = 2
     /\ families[1] = families[2]
     /\ DesiredGoodsOnOffer) => TwoThirdsDemocratic

\* C3 (as stated): the same for any goods argument, whether or not it holds
\* the goods the members desire.
C3_TwoThirdsDemocraticAnyGoods ==
    (/\ protocol = "twothirds"
     /\ pc = "done"
     /\ Len(families) = 2
     /\ families[1] = families[2]) => TwoThirdsDemocratic

\* Two identical families of three members got, after moves, bundles that
\* make exactly two of the three members of the first family reach their
\* target.
C3_Witness ==
    /\ protocol = "twothirds"
    /\ pc = "done"
    /\ Len(families) = 2
    /\ families[1] = families[2]
    /\ DesiredGoodsOnOffer
    /\ families[1].num_of_members = 3
    /\ num_reaching_one_of_best_2(families[1], bundles[1]) = 2
    /\ iteration >= 1

\* ---- C4
\* The plurality-winning index of every family, each on its own vertex.
winning_index(i) ==
    best_index_by_plurality(families[i], subsimplex_vertices[i])

\* Two families' plurality-winning indices coincide.
WinnersCollide ==
    \E i, j \in 1..Len(families) :
        i # j /\ winning_index(i) = winning_index(j)

\* What find_plurality_EF2_allocation returns is None exactly when two
\* winners collide; otherwise it is one bundle per family, the union over
\* the vertices of the sub-bundle at the family's winning index.
C4_NoneIffCollisionElseUnions ==
    protocol = "plurality" =>
        /\ pc = "returned_None" => WinnersCollide
        /\ pc = "done" =>
              /\ ~WinnersCollide
              /\ Len(bundles) = Len(families)
              /\ \A i \in 1..Len(families) :
                    bundles[i] =
                        UNION {subsimplex_vertices[v][winning_index(i) + 1] :
                               v \in 1..Len(subsimplex_vertices)}

\* The returned bundles are pairwise disjoint.
ReturnedBundlesDisjoint ==
    (protocol = "plurality" /\ pc = "done") =>
        \A i, j \in 1..Len(bundles) :
            i # j => bundles[i] \cap bundles[j] = {}

\* C4 (refuted by the code): find_plurality_EF2_allocation returns None
\* exactly when two families' plurality-winning indices coincide; otherwise
\* it returns one bundle per family, family i's bundle being the union over
\* all the vertices of the sub-bundle at family i's winning index, and the
\* returned bundles are pairwise disjoint.
C4_PluralityDisjointUnions ==
    C4_NoneIffCollisionElseUnions /\ ReturnedBundlesDisjoint

\* ---- C5
\* The pairs (family, good) for which the good crosses the family's
\* threshold.
Crossings ==
    {fg \in (1..2) \X goods :
        crosses_threshold(families[fg[1]], fg[2], threshold)}

\* Family f was awarded the single good g and the other family the rest,
\* without any RWAV turn.
AwardedAlone(f, g) ==
    /\ bundles[f] = {g}
    /\ bundles[3 - f] = goods \ {g}
    /\ turn_index = 0

C5_WitnessFallBack ==
    /\ protocol = "enhanced"
    /\ pc = "done"
    /\ Len(families) = 2
    /\ Crossings = {}
    /\ goods = Goods
    /\ bundles = rwav_allocate(families, goods)

\* ---- C7
\* No good satisfies the move condition in either direction.
IsFixpoint ==
    \A g \in goods :
        /\ g \in bundles[1] => ~move_condition(families, bundles, 1, 2, g)
        /\ g \in bundles[2] => ~move_condition(families, bundles, 2, 1, g)

\* C7: twothirds_protocol.allocate never runs more than
\* 2 * (sum of the two families' num_of_members) rounds (the round counter
\* stays below that number, and every scan visits each good of the copied
\* bundle once), and when the two families are identical the loop exits
\* through a round that changed nothing: the returned allocation is a
\* fixpoint of the move condition.
C7_TwoThirdsBoundedToFixpoint ==
    (protocol = "twothirds" /\ Len(families) = 2) =>
        /\ pc \in {"tt_scan0", "tt_scan1", "done"} =>
              /\ iteration < num_of_iterations(families)
              /\ todo \subseteq goods
        /\ (pc = "done" /\ families[1] = families[2]) =>
              /\ ~change
              /\ IsFixpoint

\* Identical families: the protocol returned from its third round or later,
\* the rounds before having moved goods.
C7_Witness ==
    /\ protocol = "twothirds"
    /\ pc = "done"
    /\ Len(families) = 2
    /\ families[1] = families[2]
    /\ iteration >= 2
    /\ ~change

\* ---- C8
\* C8: in twothirds_protocol.allocate with two families, in every state from
\* the initial allocation to the return, the two bundles are disjoint and
\* their union is the input goods.
C8_TwoThirdsPartition ==
    (protocol = "twothirds" /\ pc \in {"tt_scan0", "tt_scan1", "done"}) =>
        /\ Len(bundles) = 2
        /\ ExactPartition(bundles[1], bundles[2], {}, goods)

\* The protocol returned after moving goods: both families hold some.
C8_Witness ==
    /\ protocol = "twothirds"
    /\ pc = "done"
    /\ bundles[1] # {}
    /\ bundles[2] # {}
    /\ iteration >= 1

\* ---- C9
\* C9: rwav_protocol.allocate, enhanced_rwav_protocol.allocate and
\* twothirds_protocol.allocate called with a list of families whose length
\* is not 2 never get past their first statement: the call is either not yet
\* made or has raised, no bundle was ever created, no good was taken from a
\* pool, no scan was started, and nothing is returned.
C9_WrongFamilyCountRaises ==
    (protocol \in {"rwav", "enhanced", "twothirds"} /\ Len(families) # 2) =>
        /\ pc \in {"start", "TypeError"}
        /\ bundles = << >>
        /\ remaining_goods = {}
        /\ todo = {}
        /\ turn_index = 0

\* A call with three families has raised.
C9_Witness ==
    /\ pc = "TypeError"
    /\ Len(families) = 3
    /\ goods # {}

\* ---- C10
\* C10 (refuted by the code): twothirds_protocol.allocate called with two
\* families whose member lists differ reports an error immediately and
\* returns no allocation, partial or complete.
C10_NonIdenticalFamiliesRejected ==
    (/\ protocol = "twothirds"
     /\ Len(families) = 2
     /\ families[1].members # families[2].members) =>
        /\ pc \in {"start", "TypeError"}
        /\ bundles = << >>

\* ---- C11
\* C11 (as amended): line_protocol.allocate reports no configuration error
\* for a number of families other than 2: it hands the call to _allocate_k.
\* With one family it never fails and returns that family all the goods of
\* the line; with three families it runs the sweep and its result, when it
\* returns, has three bundles; with no family nothing is ever returned (the
\* sweep ends in the AssertionError).
C11_LineAcceptsAnyFamilyCount ==
    (protocol = "line" /\ Len(families) # 2) =>
        /\ pc # "TypeError"
        /\ pc # "start" => routine = "_allocate_k"
        /\ Len(families) = 1 =>
              /\ pc \in {"start", "line_call", "line_return", "done"}
              /\ pc = "done" => bundles = <<Range(line)>>
        /\ Len(families) = 0 => pc # "done" /\ bundles = << >>
        /\ pc = "done" => Len(bundles) = Len(families)

\* C11 (as stated): with a number of families other than 2 the line
\* protocol never returns and never builds a bundle.
C11_LineRefusesOtherFamilyCounts ==
    (protocol = "line" /\ Len(families) # 2) =>
        /\ pc # "done"
        /\ bundles = << >>

\* A single family was given a nonempty line whole.
C11_Witness ==
    /\ protocol = "line"
    /\ Len(families) = 1
    /\ pc = "done"
    /\ line # << >>
    /\ bundles = <<Range(line)>>

\* ---- C12
\* The result of the enhanced protocol when the set of goods is iterated in
\* the natural order of the goods: one of the orders the code can follow.
enhanced_allocate_in_order(fams, gs, thr) ==
    LET crossing == {g \in gs : \/ crosses_threshold(fams[1], g, thr)
                                \/ crosses_threshold(fams[2], g, thr)}
    IN  IF crossing = {} THEN rwav_allocate(fams, gs)
        ELSE LET g == MinOfSet(crossing)
             IN  IF crosses_threshold(fams[1], g, thr)
                 THEN <<{g}, gs \ {g}>>
                 ELSE <<gs \ {g}, {g}>>

\* C12 (refuted by the code): enhanced_rwav_protocol.allocate returns the
\* same allocation for the same families, goods and threshold whatever the
\* order in which the set of goods is iterated: every result equals the
\* result of the run that iterates in the natural order.
C12_EnhancedResultIndependentOfOrder ==
    (protocol = "enhanced" /\ pc = "done" /\ Len(families) = 2) =>
        bundles = enhanced_allocate_in_order(families, goods, threshold)

\* ---- C13
RECURSIVE twothirds_scan_in_order(_, _, _, _, _)
\* One for-loop of a round of the two-thirds protocol, visiting the goods of
\* the copied bundle (to_visit) in their natural order; st holds the bundles
\* and the change flag.
twothirds_scan_in_order(fams, st, to_visit, src, dst) ==
    IF to_visit = {} THEN st
    ELSE LET g == MinOfSet(to_visit)
             next == IF move_condition(fams, st.bundles, src, dst, g)
                     THEN [bundles |-> move_good(st.bundles, src, dst, g),
                           change |-> TRUE]
                     ELSE st
         IN  twothirds_scan_in_order(fams, next, to_visit \ {g}, src, dst)

RECURSIVE twothirds_rounds_in_order(_, _, _)
\* The rounds of the two-thirds protocol from round number round on.
twothirds_rounds_in_order(fams, bs, round) ==
    IF round >= num_of_iterations(fams) THEN bs
    ELSE LET st0 == [bundles |-> bs, change |-> FALSE]
             st1 == twothirds_scan_in_order(fams, st0, bs[1], 1, 2)
             st2 == twothirds_scan_in_order(fams, st1, st1.bundles[2], 2, 1)
         IN  IF st2.change
             THEN twothirds_rounds_in_order(fams, st2.bundles, round + 1)
             ELSE st2.bundles

\* The result of the two-thirds protocol when every bundle is scanned in the
\* natural order of its goods: one of the orders the code can follow.
twothirds_allocate_in_order(fams, gs) ==
    twothirds_rounds_in_order(fams, <<{}, gs>>, 0)

\* C13 (refuted by the code): twothirds_protocol.allocate returns the same allocation for the
\* same families and goods whatever the order in which the goods of each
\* bundle are scanned: every result equals the result of the run that scans
\* in the natural order.
C13_TwoThirdsResultIndependentOfOrder ==
    (protocol = "twothirds" /\ pc = "done" /\ Len(families) = 2) =>
        bundles = twothirds_allocate_in_order(families, goods)

\* ---- C14
\* C14: for all r >= 0 and all s, balance(r, s) lies in [0, 1]; it is 1
\* when s <= 0 and 0 when s > r; otherwise it is the smaller of the mean of
\* balance(r-1, s) and balance(r-1, s-1) (a mean that the scaled arithmetic
\* takes exactly) and balance(r-2, s-1).
C14_BalanceRangeAndRecurrence ==
    (call.function = "balance" /\ pc = "done" /\ call.r >= 0) =>
        LET r == call.r
            s == call.s
            sum == balance(r - 1, s) + balance(r - 1, s - 1)
        IN  /\ 0 <= result /\ result <= WeightScale
            /\ s <= 0 => result = WeightScale
            /\ s > r => result = 0
            /\ (s > 0 /\ s <= r) =>
                  /\ sum % 2 = 0
                  /\ result = Min2(sum \div 2, balance(r - 2, s - 1))

\* balance(3, 2) returned 0.375, a value where the recurrence applies and
\* the first operand of min is the smaller one; balance(2, 2), where the
\* second is, is covered too.
C14_Witness ==
    /\ call.function = "balance"
    /\ pc = "done"
    /\ call.r = 3
    /\ call.s = 2
    /\ 8 * result = 3 * WeightScale

\* ---- C15
ExceptCall ==
    /\ call.function \in {"value_except_best_c_goods",
                          "value_except_worst_c_goods"}
    /\ pc = "done"

\* C15 (as the code has it): for agents of the three classes, bundles B
\* and c >= 1: if |B| <= c both value_except_best_c_goods(B, c) and
\* value_except_worst_c_goods(B, c) are 0; if |B| > c then
\* value_except_best_c_goods(B, c) <= value_except_worst_c_goods(B, c)
\* <= value(B).
C15_ExceptBestBelowExceptWorstBelowValue ==
    ExceptCall =>
        LET agent == call.agent
            B == call.bundle
            c == call.c
        IN  /\ Cardinality(B) <= c => result = 0
            /\ (Cardinality(B) > c
                   /\ call.function = "value_except_best_c_goods") =>
                  /\ result <= value_except_worst_c_goods(agent, B, c)
                  /\ result <= Value(agent, B)
            /\ (Cardinality(B) > c
                   /\ call.function = "value_except_worst_c_goods") =>
                  /\ value_except_best_c_goods(agent, B, c) <= result
                  /\ result <= Value(agent, B)

\* C15 (as stated): if |B| <= c both are 0; if |B| > c then
\* value_except_best_c_goods(B, c) <= value(B) <=
\* value_except_worst_c_goods(B, c).
C15_ValueBetweenExceptBestAndExceptWorst ==
    ExceptCall =>
        LET agent == call.agent
            B == call.bundle
            c == call.c
        IN  /\ Cardinality(B) <= c => result = 0
            /\ (Cardinality(B) > c
                   /\ call.function = "value_except_best_c_goods") =>
                  result <= Value(agent, B)
            /\ (Cardinality(B) > c
                   /\ call.function = "value_except_worst_c_goods") =>
                  Value(agent, B) <= result

\* An additive agent valued a bundle of three goods of different values
\* except its worst good: less than the bundle, more than except its best.
C15_Witness ==
    /\ ExceptCall
    /\ call.function = "value_except_worst_c_goods"
    /\ call.agent.kind = "additive"
    /\ Cardinality(call.bundle) > call.c
    /\ value_except_best_c_goods(call.agent, call.bundle, call.c) < result
    /\ result < Value(call.agent, call.bundle)

\* ---- C17
\* The set-partition a list of blocks stands for.
AsSetPartition(p) == {Range(p[i]) : i \in 1..Len(p)}

\* The partitions of the set S into exactly c non-empty blocks.
SetPartitions(S, c) ==
    {{{x \in S : f[x] = k} : k \in 1..c} :
        f \in {h \in [S -> 1..c] : \A k \in 1..c : \E x \in S : h[x] = k}}

\* p lists each element of S once, in non-empty blocks.
IsPartitionOf(p, S) ==
    /\ \A i \in 1..Len(p) : p[i] # << >>
    /\ UNION AsSetPartition(p) = S
    /\ SumOver([i \in 1..Len(p) |-> Len(p[i])], Len(p)) = Cardinality(S)

\* The yielded list has no partition twice.
YieldsOnce(ps) ==
    \A i, j \in 1..Len(ps) :
        i # j => AsSetPartition(ps[i]) # AsSetPartition(ps[j])

\* C17: for a non-empty list of distinct elements and c >= 1,
\* partitions_to_exactly_c yields each partition of the elements into
\* exactly c non-empty blocks exactly once, and nothing else.
C17_ExactlyCYieldsEachPartitionOnce ==
    (call.function = "partitions_to_exactly_c" /\ pc = "done") =>
        LET S == Range(call.collection)
        IN  /\ \A i \in 1..Len(result) :
                  IsPartitionOf(result[i], S) /\ Len(result[i]) = call.c
            /\ YieldsOnce(result)
            /\ {AsSetPartition(result[i]) : i \in 1..Len(result)}
                  = SetPartitions(S, call.c)

\* Four elements were split into two blocks in the 7 possible ways.
C17_Witness ==
    /\ call.function = "partitions_to_exactly_c"
    /\ pc = "done"
    /\ Len(call.collection) = 4
    /\ call.c = 2
    /\ Len(result) = 7

\* ---- C18
\* C18 (refuted by the code): for a non-empty list of distinct elements and
\* c >= 1, partitions_to_at_most_c yields every partition of the elements
\* into at most c blocks, and every partition it yields has at most c
\* blocks.
C18_AtMostCYieldsAllAndOnlyUpToC ==
    (call.function = "partitions_to_at_most_c" /\ pc = "done") =>
        LET S == Range(call.collection)
        IN  /\ \A i \in 1..Len(result) :
                  IsPartitionOf(result[i], S) /\ Len(result[i]) <= call.c
            /\ \A k \in 1..call.c :
                  SetPartitions(S, k)
                      \subseteq {AsSetPartition(result[i]) : i \in 1..Len(result)}

\* ---- C16
\* The maximin share by its definition: the largest, over the partitions of
\* the desired goods into exactly c non-empty blocks, of the least value of
\* a block; 0 when there are fewer than c desired goods.
MaximinShareByDefinition(agent, c) ==
    IF c > Cardinality(agent.desired_goods) THEN 0
    ELSE MaxOfSet({MinOfSet({Value(agent, block) : block \in P}) :
                       P \in SetPartitions(agent.desired_goods, c)})

\* C16: for every agent and c >= 1, value_1_of_c_MMS(c) is the largest,
\* over the partitions of the desired goods into exactly c non-empty blocks,
\* of the least block value, and 0 when c exceeds the number of desired
\* goods; for a binary agent the closed form floor(total_value / c) that is
\* returned equals what the partition-based method of the base class
\* returns.
C16_MaximinShareIsMaxMinOverPartitions ==
    (call.function = "value_1_of_c_MMS" /\ pc = "done") =>
        /\ result = MaximinShareByDefinition(call.agent, call.c)
        /\ call.c > Cardinality(call.agent.desired_goods) => result = 0
        /\ call.agent.kind = "binary" =>
              result = Agent_value_1_of_c_MMS(call.agent, call.c)

\* A monotone agent's three desired goods were split in two blocks and the
\* share is positive and less than the value of all.
C16_Witness ==
    /\ call.function = "value_1_of_c_MMS"
    /\ pc = "done"
    /\ call.agent.kind = "monotone"
    /\ Cardinality(call.agent.desired_goods) = 3
    /\ call.c = 2
    /\ 0 < result
    /\ result < call.agent.total_value

\* A binary agent with three desired goods: the share 1-of-2 is 1.
C16_WitnessBinary ==
    /\ call.function = "value_1_of_c_MMS"
    /\ pc = "done"
    /\ call.agent.kind = "binary"
    /\ Cardinality(call.agent.desired_goods) = 3
    /\ call.c = 2
    /\ result = 1

\* ---- C20
\* C20 (refuted by the code): EnvyFreeExceptC(1).target_value_for_binary(r)
\* returns floor(r / 2) for every total value r in 0..9.
C20_EnvyFreeTargetIsHalfRoundedDown ==
    (/\ call.function = "target_value_for_binary"
     /\ call.criterion = EnvyFreeExceptC(1)
     /\ call.total_value \in 0..9
     /\ pc # "start") =>
        /\ pc = "done"
        /\ result = call.total_value \div 2

\* ---- C19
\* The Family object as it was built: each member with the target of the
\* family's own criterion.
FamilyAsBuilt(family_object) ==
    Family([i \in 1..Len(family_object.members) |->
               agent_objects[family_object.members[i]]],
           family_object.fairness_criterion)

\* C19 (refuted by the code): Family objects built over the same Agent
\* objects are independent: whatever other Family is constructed later,
\* choose_good on a Family chooses with the target values that the
\* family's own criterion gives its members.
C19_ChooseGoodUsesOwnFamilyTargets ==
    call.function = "choose_good" =>
        result = choose_good(FamilyAsBuilt(family_objects[call.family]),
                             call.owned_goods, call.remaining_goods)

\* C19 (refuted by the code), as a frame condition: constructing a Family
\* leaves the target values of the members of the Family objects that
\* already exist as they were.
C19_FamilyInitKeepsTargetsOfOtherFamilies ==
    [][\A k \in 1..Len(family_objects) :
          \A a \in Range(family_objects[k].members) :
              agent_objects'[a].target_value = agent_objects[a].target_value]_vars

\* ---- C21
\* C21 (refuted by the code): is_PROPc(own_bundle, n, c) is true exactly
\* when value(own_bundle) * n is at least the agent's value for its desired
\* goods except the best c of them, with the caller's c.
C21_IsPROPcExceptsTheCallersC ==
    (call.function = "is_PROPc" /\ pc = "done") =>
        (result <=>
            Value(call.agent, call.bundle) * call.num_of_agents
                >= value_except_best_c_goods(call.agent,
                       call.agent.desired_goods, call.c))

\* ---- C22
\* Between the initialisation and the return, with two families: the family
\* to move is families[turn_index mod 2], the turns taken and the goods left
\* add up to the number of goods, and the families hold ceil(t/2) and
\* floor(t/2) goods after t turns; on return the pool is empty and all the
\* n turns were taken.
RwavTurnsAlternate ==
    (protocol = "rwav" /\ pc \in {"rwav_loop", "done"}) =>
        /\ family_index = turn_index % 2
        /\ turn_index + Cardinality(remaining_goods) = Cardinality(goods)
        /\ Cardinality(bundles[1]) = (turn_index + 1) \div 2
        /\ Cardinality(bundles[2]) = turn_index \div 2
        /\ pc = "done" =>
              /\ remaining_goods = {}
              /\ turn_index = Cardinality(goods)
              /\ Cardinality(bundles[1]) = (Cardinality(goods) + 1) \div 2
              /\ Cardinality(bundles[2]) = Cardinality(goods) \div 2

\* A turn moves exactly one good from the pool to the bundle of the family
\* whose turn it is and leaves the other bundle alone; the loop is left
\* only with an empty pool.
RwavTurnMovesOneGood ==
    (protocol = "rwav" /\ pc = "rwav_loop") =>
        /\ pc' = "rwav_loop" /\ turn_index' # turn_index =>
              LET active == (turn_index % 2) + 1
                  other == 3 - active
              IN  /\ turn_index' = turn_index + 1
                  /\ bundles'[other] = bundles[other]
                  /\ \E g \in remaining_goods :
                        /\ g \notin bundles[active]
                        /\ remaining_goods' = remaining_goods \ {g}
                        /\ bundles'[active] = bundles[active] \cup {g}
        /\ pc' = "done" => (remaining_goods = {} /\ bundles' = bundles)
        /\ pc' \in {"rwav_loop", "done"}

\* C22: in rwav_protocol.allocate with two families and n goods, turn t is
\* taken by families[t mod 2], each turn moves exactly one good from the
\* pool into the active family's bundle and leaves the other bundle
\* unchanged, and the loop ends after exactly n turns with an empty pool,
\* families[0] holding ceil(n/2) goods and families[1] floor(n/2).
C22_RwavRoundRobin == []RwavTurnsAlternate /\ [][RwavTurnMovesOneGood]_vars

\* Three goods were allocated in three turns: two to the first family, one
\* to the second.
C22_Witness ==
    /\ protocol = "rwav"
    /\ pc = "done"
    /\ turn_index = 3
    /\ Cardinality(bundles[1]) = 2
    /\ Cardinality(bundles[2]) = 1

\* ---- C23
\* The total weight of good g: the sum, over the members that desire g, of
\* weight(r, s) * cardinality, r the member's value for the remaining goods
\* and s its target value minus its value for the owned goods.
TotalWeight(family, owned, remaining, g) ==
    LET voters == {i \in 1..Len(family.members) :
                      g \in family.members[i].desired_goods}
        vote == [i \in 1..Len(family.members) |->
                    IF i \in voters
                    THEN weight(Value(family.members[i], remaining),
                                family.members[i].target_value
                                    - Value(family.members[i], owned))
                             * family.members[i].cardinality
                    ELSE 0]
    IN  SumOver(vote, Len(family.members))

\* chosen is in remaining, no remaining good weighs more, and no remaining
\* good of the same weight is smaller.
HeaviestThenSmallest(family, owned, remaining, chosen) ==
    /\ chosen \in remaining
    /\ \A h \in remaining :
          /\ TotalWeight(family, owned, remaining, h)
                <= TotalWeight(family, owned, remaining, chosen)
          /\ TotalWeight(family, owned, remaining, h)
                = TotalWeight(family, owned, remaining, chosen) => chosen <= h

C23_WitnessAllZero ==
    /\ call.function = "choose_good"
    /\ call.remaining_goods = {1, 2, 3}
    /\ \A a \in 1..Len(agent_objects) : agent_objects[a].desired_goods = {}
    /\ result = 1

\* ---- C24
\* The test of the claim for the family at 0-based position index of the
\* current call, at the cut that leaves the first cut goods of the call's
\* line on the left.
HappyEnoughAt(cut, index) ==
    LET goods_of_call == left_sequence \o right_sequence
        left == Range(SubSeq(goods_of_call, 1, cut))
        right == Range(SubSeq(goods_of_call, cut + 1, Len(goods_of_call)))
        family == families[cur_families[index + 1]]
    IN  num_of_happy_members(family, left, <<right>>) * Len(cur_families)
            >= family.num_of_members

\* The current call sweeps (it has two families or more).
Sweeping ==
    /\ protocol = "line"
    /\ pc = "line_call"
    /\ ~(routine = "_allocate_k" /\ Len(cur_families) = 1)

\* While a call sweeps, no family accepted any of the prefixes shorter than
\* the present one; the documented calls return the documented bundles.
LineSweepInOrder ==
    /\ Sweeping =>
          \A cut \in 0..(Len(left_sequence) - 1) :
              \A index \in 0..(Len(cur_families) - 1) :
                  ~HappyEnoughAt(cut, index)
    /\ (protocol = "line" /\ pc \notin {"start", "line_call"}
          /\ families = <<DocumentedFamily1, DocumentedFamily2>>
          /\ line = <<1, 2, 3, 4>>) =>
              (pc = "done" /\ bundles = <<{1}, {2, 3, 4}>>)
    /\ (protocol = "line" /\ pc \notin {"start", "line_call"}
          /\ families = <<DocumentedFamily2, DocumentedFamily1>>
          /\ line = <<2, 1, 3, 4>>) =>
              (pc = "done" /\ bundles = <<{3, 4}, {1, 2}>>)

\* A step of a sweeping call: if some family accepts the present prefix, the
\* first of them in index order is given the left prefix, and no other
\* family is given anything unless it is the other one of two (which gets
\* the rest); if none does, the prefix grows by the next good of the line.
LineFirstAcceptingPairDecides ==
    Sweeping =>
        LET cut == Len(left_sequence)
            accepting == {i \in 0..(Len(cur_families) - 1) :
                             HappyEnoughAt(cut, i)}
        IN  /\ (accepting # {} /\ right_sequence # << >>) =>
                  LET index == CHOOSE i \in accepting :
                                   \A j \in accepting : i <= j
                      decided == cur_families[index + 1]
                  IN  /\ decided \notin DOMAIN awarded
                      /\ decided \in DOMAIN awarded'
                      /\ awarded'[decided] = Range(left_sequence)
                      /\ \A f \in DOMAIN awarded' \ DOMAIN awarded :
                            \/ f = decided
                            \/ /\ Len(cur_families) = 2
                               /\ routine = "_allocate_2"
                               /\ awarded'[f] = Range(right_sequence)
            /\ (accepting = {} /\ right_sequence # << >>) =>
                  /\ awarded' = awarded
                  /\ left_sequence' = Append(left_sequence, Head(right_sequence))
                  /\ right_sequence' = Tail(right_sequence)
                  /\ cur_families' = cur_families

\* C24: line_protocol.allocate sweeps the prefixes of the line from the
\* empty one in increasing length and, at each prefix, the families in
\* increasing index; the first (prefix, family) pair with
\* num_of_happy_members(left, [right]) * k >= num_of_members, k the number of
\* families of the call, decides: that family receives the left prefix.  For
\* the documented families over w,x,y,z the result is {w}, {x,y,z}; for the
\* swapped families over x,w,y,z it is {y,z}, {w,x}.
C24_LineFirstAcceptingPairDecides ==
    []LineSweepInOrder /\ [][LineFirstAcceptingPairDecides]_vars

\* The documented call returned; and a call of three families gave a
\* non-empty prefix to a family that is not the first.
C24_Witness ==
    /\ protocol = "line"
    /\ pc = "done"
    /\ families = <<DocumentedFamily1, DocumentedFamily2>>
    /\ bundles = <<{1}, {2, 3, 4}>>

C24_WitnessLaterFamily ==
    /\ protocol = "line"
    /\ pc = "done"
    /\ Len(families) = 3
    /\ bundles[1] # {}
    /\ bundles[2] # {}
    /\ bundles[3] # {}

\* ---- C25
\* C25 (refuted by the code): with two families or more in the call, the
\* fatal AssertionError is raised only if no family accepts at any prefix
\* length of the call's line, from the empty prefix through the full line
\* (left = all the goods, right = empty), an empty line included.
C25_AssertionOnlyAfterEveryPrefixRefused ==
    (protocol = "line" /\ pc = "AssertionError" /\ Len(cur_families) >= 2) =>
        \A cut \in 0..Len(left_sequence \o right_sequence) :
            \A index \in 0..(Len(cur_families) - 1) :
                ~HappyEnoughAt(cut, index)

\* C25, the part the code keeps: the AssertionError is raised only if no
\* family accepts at any prefix that leaves at least one good on the right.
C25_AssertionAfterEveryProperPrefixRefused ==
    (protocol = "line" /\ pc = "AssertionError" /\ Len(cur_families) >= 2) =>
        /\ right_sequence = << >>
        /\ \A cut \in 0..(Len(left_sequence) - 1) :
              \A index \in 0..(Len(cur_families) - 1) :
                  ~HappyEnoughAt(cut, index)

\* ---- C26
\* A step of _allocate_k that makes the recursive call (line 139): the
\* accepting family's frame is pushed and the callee starts on right_sequence.
RecursiveCall == Len(stack') = Len(stack) + 1

\* The goods of the call in progress: the line it was given.
GoodsOfCall == left_sequence \o right_sequence

\* C26 (as stated, refuted): every recursive call of _allocate_k is made with
\* one family fewer and with strictly fewer goods than the call making it.
C26_RecursionStrictlyFewerFamiliesAndGoods ==
    [][RecursiveCall =>
          /\ Len(cur_families') = Len(cur_families) - 1
          /\ Len(left_sequence' \o right_sequence') < Len(GoodsOfCall)]_vars

\* C26 (amended): every recursive call of _allocate_k is made with one family
\* fewer and with the goods right of the cut, which are no more than the
\* caller's goods and strictly fewer exactly when the prefix awarded is not
\* empty; a call with a single family gives it all the goods of the call,
\* whatever its members value.
C26_RecursionFewerFamiliesNoMoreGoods ==
    /\ [][RecursiveCall =>
            /\ routine = "_allocate_k"
            /\ Len(cur_families') = Len(cur_families) - 1
            /\ left_sequence' \o right_sequence' = right_sequence
            /\ Len(left_sequence' \o right_sequence') <= Len(GoodsOfCall)
            /\ (Len(left_sequence' \o right_sequence') < Len(GoodsOfCall))
                  <=> (left_sequence # << >>)]_vars
    /\ [][(pc = "line_call" /\ routine = "_allocate_k"
             /\ Len(cur_families) = 1) =>
            /\ pc' = "line_return"
            /\ bundles' = <<Range(GoodsOfCall)>>
            /\ awarded'[cur_families[1]] = Range(GoodsOfCall)]_vars

\* A call of three families recursed twice and reached the single family:
\* once after an empty prefix (the callee got all the caller's goods) and
\* once after a non-empty prefix.
C26_Witness ==
    /\ protocol = "line"
    /\ Len(families) = 3
    /\ pc = "line_return"
    /\ Len(stack) = 2
    /\ \E i \in 1..2 : stack[i].left_bundle = {}
    /\ \E i \in 1..2 : stack[i].left_bundle # {}
    /\ bundles[1] # {}

\* ---- C27
\* The bundle a member votes for: the lowest index (0-based) of a bundle
\* that the member values at least as much as every bundle of the list.
MemberVotesFor(agent, partition, index) ==
    /\ \A k \in 1..Len(partition) :
          Value(agent, partition[k]) <= Value(agent, partition[index + 1])
    /\ \A k \in 1..index :
          Value(agent, partition[k]) < Value(agent, partition[index + 1])

\* The number of members, counted with cardinality, who vote for index.
VotesFor(family, partition, index) ==
    SumOver([m \in 1..Len(family.members) |->
                IF MemberVotesFor(family.members[m], partition, index)
                THEN family.members[m].cardinality ELSE 0],
            Len(family.members))

\* C27: best_index_by_plurality(family, partition) returns the index that
\* collects the largest cardinality-weighted number of member votes, each
\* member voting for the lowest index among the bundles of maximum value to
\* it (Agent.best_index); among indices with equally many votes the lowest
\* is returned.
C27_PluralityWinnerHasMostWeightedVotes ==
    /\ (pc = "done" /\ call.function = "best_index") =>
          /\ result \in 0..(Len(call.partition) - 1)
          /\ MemberVotesFor(call.agent, call.partition, result)
    /\ (pc = "done" /\ call.function = "best_index_by_plurality") =>
          /\ result \in 0..(Len(call.partition) - 1)
          /\ \A i \in 0..(Len(call.partition) - 1) :
                VotesFor(call.family, call.partition, i)
                    <= VotesFor(call.family, call.partition, result)
          /\ \A i \in 0..(result - 1) :
                VotesFor(call.family, call.partition, i)
                    < VotesFor(call.family, call.partition, result)

\* The doctest: the member with cardinality 2 outvotes the one with 1.
C27_Witness ==
    /\ pc = "done"
    /\ call.function = "best_index_by_plurality"
    /\ call.family.members = <<[BinaryAgent({1, 2}, 1) EXCEPT
                                   !.target_value = 1],
                               [BinaryAgent({2, 3}, 2) EXCEPT
                                   !.target_value = 1]>>
    /\ call.partition = <<{1, 2}, {2, 3}>>
    /\ result = 1

\* Two indices collect equally many votes and the lower one wins, although
\* it is not the first of the list.
C27_WitnessTie ==
    /\ pc = "done"
    /\ call.function = "best_index_by_plurality"
    /\ result = 1
    /\ Len(call.partition) = 3
    /\ VotesFor(call.family, call.partition, 1)
          = VotesFor(call.family, call.partition, 2)
    /\ VotesFor(call.family, call.partition, 2) > 0

\* ---- C28
\* Agent.value_except_best_c_goods of the base class, agents.py lines 73-77
Agent_value_except_best_c_goods(agent, bundle, c) ==
    IF Cardinality(bundle) <= c THEN 0
    ELSE MinOfSet({Value(agent, bundle \ sub_bundle) :
                        sub_bundle \in Combinations(bundle, c)})

\* Agent.value_except_worst_c_goods of the base class, agents.py lines 92-96
Agent_value_except_worst_c_goods(agent, bundle, c) ==
    IF Cardinality(bundle) <= c THEN 0
    ELSE MaxOfSet({Value(agent, bundle \ sub_bundle) :
                        sub_bundle \in Combinations(bundle, c)})

\* The call returned what the base class computes, and nothing negative.
AgreesWithEnumeration ==
    /\ call.function = "value_except_best_c_goods" =>
          result = Agent_value_except_best_c_goods(call.agent, call.bundle,
                                                   call.c)
    /\ call.function = "value_except_worst_c_goods" =>
          result = Agent_value_except_worst_c_goods(call.agent, call.bundle,
                                                    call.c)
    /\ result >= 0

\* C28 (refuted by the code): for every AdditiveAgent with nonnegative values
\* and every BinaryAgent, every bundle and every c >= 1,
\* value_except_best_c_goods(bundle, c) is the minimum and
\* value_except_worst_c_goods(bundle, c) the maximum, over the subsets G of
\* size c of the bundle, of value(bundle - G) (0 when |bundle| <= c), as the
\* base class computes them; the result is never negative.
C28_ClosedFormsAgreeWithEnumeration ==
    (/\ pc = "done"
     /\ call.function \in {"value_except_best_c_goods",
                           "value_except_worst_c_goods"}
     /\ call.agent.kind \in {"additive", "binary"}) => AgreesWithEnumeration

\* C28, the part the code keeps: the closed forms of AdditiveAgent agree
\* with the enumeration; so do those of BinaryAgent on bundles of desired
\* goods only.
C28_ClosedFormsAgreeOnDesiredBundles ==
    (/\ pc = "done"
     /\ call.function \in {"value_except_best_c_goods",
                           "value_except_worst_c_goods"}
     /\ \/ call.agent.kind = "additive"
        \/ /\ call.agent.kind = "binary"
           /\ call.bundle \subseteq call.agent.desired_goods)
        => AgreesWithEnumeration

\* ---- C29
\* C29: for all integers r >= 0 and all integers s, the voting weight
\* weight(r, s) = balance(r, s) - balance(r-1, s) is never negative (balance
\* does not decrease as r grows), and it is 0 whenever s <= 0 or s > r.
C29_WeightNonNegativeAndZeroOutside ==
    /\ (call.function = "weight" /\ pc = "done" /\ call.r >= 0) =>
          /\ result >= 0
          /\ (call.s <= 0 \/ call.s > call.r) => result = 0
          /\ \E lower, upper \in 0..WeightScale :
                /\ lower = balance(call.r - 1, call.s)
                /\ upper = balance(call.r, call.s)
                /\ result = upper - lower
    /\ (call.function = "balance" /\ pc = "done" /\ call.r >= 0) =>
          \A q \in 0..call.r : balance(q, call.s) <= result

\* weight(1, 1) returned 0.5 and weight(3, 2) returned 0.375 - 0 (the two
\* cases with 0 < s <= r: the first from the doctest); weight(0, 2) returned
\* 0.
C29_Witness ==
    /\ call.function = "weight"
    /\ pc = "done"
    /\ call.r = 1
    /\ call.s = 1
    /\ 2 * result = WeightScale

C29_WitnessZero ==
    /\ call.function = "weight"
    /\ pc = "done"
    /\ call.r = 0
    /\ call.s = 2
    /\ result = 0

\* ---- C30
\* The members of family f, counted with cardinality, who desire g and value
\* the bundle bs[f] at exactly v.
DesiringWithValue(f, bs, g, v) ==
    SumOver([m \in 1..Len(families[f].members) |->
                IF /\ g \in families[f].members[m].desired_goods
                   /\ Cardinality(families[f].members[m].desired_goods
                                      \cap bs[f]) = v
                THEN families[f].members[m].cardinality ELSE 0],
            Len(families[f].members))

\* The members of both families, counted with cardinality, whose value for
\* their own family's bundle is at least 1.
MembersWithSomething(bs) ==
    SumOver([f \in 1..2 |->
                SumOver([m \in 1..Len(families[f].members) |->
                            IF families[f].members[m].desired_goods
                                   \cap bs[f] # {}
                            THEN families[f].members[m].cardinality ELSE 0],
                        Len(families[f].members))], 2)

TotalNumOfMembers ==
    SumOver([f \in 1..Len(families) |-> families[f].num_of_members],
            Len(families))

\* A step of the two-thirds protocol that changes the bundles after the
\* initial allocation: a move.
TwoThirdsMove ==
    /\ protocol = "twothirds"
    /\ pc \in {"tt_scan0", "tt_scan1"}
    /\ bundles' # bundles

\* The move takes one good g from the giver's bundle to the receiver's, the
\* receiver's poor members who desire g outnumber the giver's members who
\* desire g and hold exactly one desired good, and the count of members with
\* something grows.
MoveHelpsMoreThanItHarms ==
    \E src, dst \in 1..2 : \E g \in bundles[src] :
        /\ src # dst
        /\ bundles' = [bundles EXCEPT ![src] = @ \ {g}, ![dst] = @ \cup {g}]
        /\ DesiringWithValue(dst, bundles, g, 0)
              > DesiringWithValue(src, bundles, g, 1)
        /\ MembersWithSomething(bundles') > MembersWithSomething(bundles)
        /\ MembersWithSomething(bundles') - MembersWithSomething(bundles)
              = DesiringWithValue(dst, bundles, g, 0)
                  - DesiringWithValue(src, bundles, g, 1)
        /\ num_of_moves' = num_of_moves + 1

MovesBounded ==
    (protocol = "twothirds" /\ Len(families) = 2) =>
        num_of_moves <= TotalNumOfMembers

\* C30: in twothirds_protocol.allocate, for any two families of binary
\* agents, identical or not, a good g moves from one family's bundle to the
\* other's only when the cardinality-weighted number of members of the
\* receiving family who desire g and value their bundle at 0 strictly
\* exceeds the number of members of the giving family who desire g and value
\* their bundle at exactly 1; every move strictly increases the total, over
\* both families, of the members whose value for their own family's bundle
\* is at least 1; and the number of moves in a run never exceeds the total
\* number of members.
C30_TwoThirdsMovesHelpAndAreBounded ==
    /\ []MovesBounded
    /\ [][TwoThirdsMove => MoveHelpsMoreThanItHarms]_vars
    /\ [][(protocol = "twothirds" /\ ~TwoThirdsMove /\ pc # "start")
             => num_of_moves' = num_of_moves]_vars

\* Two different families: the call returned after two moves or more and
\* both families hold goods.
C30_Witness ==
    /\ protocol = "twothirds"
    /\ pc = "done"
    /\ Len(families) = 2
    /\ families[1] # families[2]
    /\ num_of_moves >= 2
    /\ bundles[1] # {}
    /\ bundles[2] # {}

\* Identical families: the call returned after two moves or more.
C30_WitnessIdentical ==
    /\ protocol = "twothirds"
    /\ pc = "done"
    /\ Len(families) = 2
    /\ families[1] = families[2]
    /\ num_of_moves >= 2

====
